---- MODULE Spec2Model ----
(***************************************************************************)
(* Wallet service: PostgresWalletRepository (ledger store), the Redis      *)
(* balance cache (CacheRepositoryImpl) and WalletService (orchestrator).   *)
(*                                                                         *)
(* The store is PostgreSQL at its default isolation level (db.BeginTx is   *)
(* called with nil options): every statement reads the latest committed    *)
(* row versions plus the transaction's own writes; SELECT ... FOR UPDATE,  *)
(* UPDATE and INSERT ... ON CONFLICT DO UPDATE take an exclusive row lock  *)
(* that is held until the transaction commits or rolls back; a statement   *)
(* that needs a lock held by another transaction waits.  Amounts are       *)
(* modelled as integers.                                                   *)
(***************************************************************************)
EXTENDS Integers, Sequences, FiniteSets, Bags, TLC

VARIABLES
    wallets,        \* committed table wallets: user_id -> balance, for the users that have a row
    transactions,   \* committed table transactions, in commit order
    nextID,         \* the SERIAL sequence behind transactions.id
    lockHolder,     \* row lock (or pending unique-key insert) on wallets: user_id -> holder
    pc,             \* position of each caller in the operation it runs
    op,             \* the call each caller is running
    txWrite,        \* uncommitted wallet rows written by the caller's sql.Tx
    txRec,          \* uncommitted transactions rows inserted by the caller's sql.Tx
    result,         \* (value, error) of the caller's last repository or service call
    failedAt,       \* the statement or cache read at which the caller's current call got an error
    cache,          \* Redis: "balance:"+userID -> balance, for the keys that are present
    tasks,          \* detached goroutines not yet run (a bag: task -> count)
    cacheErrs,      \* cache calls that returned a Redis error so far, per caller and for the goroutines
    script,         \* calls the scripted client has still to issue
    results,        \* results the scripted client has received so far
    callsMade,      \* number of calls started so far
    bal0            \* the wallets table at the start of the behaviour

vars == <<wallets, transactions, nextID, lockHolder, pc, op, txWrite, txRec,
          result, failedAt, cache, tasks, cacheErrs, script, results, callsMade, bal0>>

storeVars == <<wallets, transactions>>
txVars == <<lockHolder, txWrite, txRec>>
cacheVars == <<cache, tasks, cacheErrs>>
clientVars == <<script, results, bal0>>

----------------------------------------------------------------------------
(* Bounds and input domains *)

MaxCalls == 3
MaxRows == 3

Procs == {"p1", "p2"}
Users == {"user1", "user2"}
UserIDs == Users \cup {""}
Amounts == {0, 1, 2}

----------------------------------------------------------------------------
(* Values of the program *)

NULL == "NULL"
Free == "free"

ErrNil == "nil"
ErrInsufficientBalance == "insufficient balance"
ErrUserNotFound == "user not found"
ErrInvalidAmount == "invalid amount"
ErrInvalidUserID == "invalid user ID"
ErrInvalidLimit == "invalid limit"
ErrRedisNil == "redis: nil"
ErrStore == "store error"
ErrDeadlock == "deadlock detected"
ErrCache == "cache error"

Res(v, e) == [val |-> v, err |-> e]
NoCall == [via |-> "none", kind |-> "none", user |-> "", to |-> "", amount |-> 0]
Call(via, kind, user, to, amount) ==
    [via |-> via, kind |-> kind, user |-> user, to |-> to, amount |-> amount]
NoEntries == [u \in {} |-> 0]

\* m with the entry of key k set to v / removed.
Put(m, k, v) == [x \in DOMAIN m \cup {k} |-> IF x = k THEN v ELSE m[x]]
Del(m, k) == [x \in DOMAIN m \ {k} |-> m[x]]

----------------------------------------------------------------------------
(* Helpers of the store *)

\* The rows of wallets as a statement of p's transaction sees them: the
\* committed rows overlaid with the transaction's own writes.
TxView(p) == [u \in DOMAIN wallets \cup DOMAIN txWrite[p] |->
                 IF u \in DOMAIN txWrite[p] THEN txWrite[p][u] ELSE wallets[u]]

\* p can take the row lock of u without waiting.
CanLock(p, u) == lockHolder[u] \in {Free, p}

Locked(p, u) == [lockHolder EXCEPT ![u] = p]

\* Locks after p's transaction ended.
Released(p) == [u \in Users |-> IF lockHolder[u] = p THEN Free ELSE lockHolder[u]]

\* Where control goes when the repository call of p returns.
RetPc(p) == IF op[p].via = "repo" THEN "done" ELSE "repo_ret"

\* Variant of Abort: there is no deferred tx.Rollback(), so the transaction is
\* left open and keeps its writes and its locks.
AbortNoRollback(p, err) ==
    /\ result' = [result EXCEPT ![p] = Res(0, err)]
    /\ failedAt' = [failedAt EXCEPT ![p] = pc[p]]
    /\ pc' = [pc EXCEPT ![p] = RetPc(p)]
    /\ UNCHANGED <<lockHolder, txWrite, txRec>>

\* `return err` inside the transaction: the deferred tx.Rollback() drops the
\* transaction's writes and releases its locks.
Abort(p, err) ==
    /\ lockHolder' = Released(p)
    /\ txWrite' = [txWrite EXCEPT ![p] = NoEntries]
    /\ txRec' = [txRec EXCEPT ![p] = << >>]
    /\ result' = [result EXCEPT ![p] = Res(0, err)]
    /\ failedAt' = [failedAt EXCEPT ![p] = pc[p]]
    /\ pc' = [pc EXCEPT ![p] = RetPc(p)]

InTx(p) == pc[p] \in {"upsert", "select", "debit", "credit", "insert", "commit"}

----------------------------------------------------------------------------
(* PostgresWalletRepository *)

\* Variant of ValidateUserAmount: the amount is not checked.
ValidateUserOnly(userID, amount) ==
    IF userID = "" THEN ErrInvalidUserID
    ELSE "begin"

\* Argument validation of Deposit and Withdraw; "begin" when BeginTx is reached.
ValidateUserAmount(userID, amount) ==
    IF userID = "" THEN ErrInvalidUserID
    ELSE IF amount <= 0 THEN ErrInvalidAmount
    ELSE "begin"

\* Variant of ValidateTransfer: sender and receiver may be the same user.
ValidateTransferToSelf(fromUserID, toUserID, amount) ==
    IF fromUserID = "" \/ toUserID = "" THEN ErrInvalidUserID
    ELSE IF amount <= 0 THEN ErrInvalidAmount
    ELSE "begin"

\* Argument validation of Transfer.
ValidateTransfer(fromUserID, toUserID, amount) ==
    IF fromUserID = "" \/ toUserID = "" THEN ErrInvalidUserID
    ELSE IF fromUserID = toUserID THEN ErrInvalidUserID
    ELSE IF amount <= 0 THEN ErrInvalidAmount
    ELSE "begin"

\* Entry of Deposit / Withdraw / Transfer up to BeginTx.
RepoEnter(p, c) ==
    LET v == IF c.kind = "transfer" THEN ValidateTransfer(c.user, c.to, c.amount)
             ELSE ValidateUserAmount(c.user, c.amount)
    IN  /\ op' = [op EXCEPT ![p] = c]
        /\ IF v = "begin"
           THEN /\ pc' = [pc EXCEPT ![p] = IF c.kind = "deposit" THEN "upsert" ELSE "select"]
                /\ result' = [result EXCEPT ![p] = Res(0, ErrNil)]
           ELSE /\ pc' = [pc EXCEPT ![p] = IF c.via = "repo" THEN "done" ELSE "repo_ret"]
                /\ result' = [result EXCEPT ![p] = Res(0, v)]
        /\ failedAt' = [failedAt EXCEPT ![p] = "none"]
        /\ UNCHANGED txVars

\* Variant of DepositUpsert: the new balance is computed from a plain read and
\* written without waiting for the row.
DepositReadThenWrite(p) ==
    LET u == op[p].user
    IN  /\ pc[p] = "upsert"
        /\ lockHolder' = Locked(p, u)
        /\ txWrite' = [txWrite EXCEPT ![p] =
              Put(@, u, IF u \in DOMAIN wallets THEN wallets[u] + op[p].amount
                        ELSE op[p].amount)]
        /\ pc' = [pc EXCEPT ![p] = "insert"]
        /\ UNCHANGED <<storeVars, nextID, op, txRec, result, failedAt, cacheVars,
                       clientVars, callsMade>>

\* Deposit: INSERT INTO wallets (user_id, balance) VALUES ($1, $2)
\*          ON CONFLICT (user_id) DO UPDATE SET balance = wallets.balance + $2
DepositUpsert(p) ==
    LET u == op[p].user
    IN  /\ pc[p] = "upsert"
        /\ CanLock(p, u)
        /\ lockHolder' = Locked(p, u)
        /\ txWrite' = [txWrite EXCEPT ![p] =
              Put(@, u, IF u \in DOMAIN TxView(p) THEN TxView(p)[u] + op[p].amount
                        ELSE op[p].amount)]
        /\ pc' = [pc EXCEPT ![p] = "insert"]
        /\ UNCHANGED <<storeVars, nextID, op, txRec, result, failedAt, cacheVars,
                       clientVars, callsMade>>

\* Variant of SelectForUpdate: a missing row is read as a balance of zero.
SelectMissingAsZero(p) ==
    LET u == op[p].user
        b == IF u \in DOMAIN wallets THEN wallets[u] ELSE 0
    IN  /\ pc[p] = "select"
        /\ CanLock(p, u)
        /\ IF b < op[p].amount
           THEN Abort(p, ErrInsufficientBalance)
           ELSE /\ lockHolder' = Locked(p, u)
                /\ pc' = [pc EXCEPT ![p] = "debit"]
                /\ UNCHANGED <<txWrite, txRec, result, failedAt>>
        /\ UNCHANGED <<storeVars, nextID, op, cacheVars, clientVars, callsMade>>

\* Variant of SelectForUpdate: the comparison is not strict, a balance equal to
\* the amount is refused.
SelectNotStrict(p) ==
    LET u == op[p].user
    IN  /\ pc[p] = "select"
        /\ IF u \notin DOMAIN wallets
           THEN Abort(p, ErrUserNotFound)
           ELSE /\ CanLock(p, u)
                /\ IF wallets[u] <= op[p].amount
                   THEN Abort(p, ErrInsufficientBalance)
                   ELSE /\ lockHolder' = Locked(p, u)
                        /\ pc' = [pc EXCEPT ![p] = "debit"]
                        /\ UNCHANGED <<txWrite, txRec, result, failedAt>>
        /\ UNCHANGED <<storeVars, nextID, op, cacheVars, clientVars, callsMade>>

\* Variant of SelectForUpdate: the comparison is off by one.
SelectOffByOne(p) ==
    LET u == op[p].user
    IN  /\ pc[p] = "select"
        /\ IF u \notin DOMAIN wallets
           THEN Abort(p, ErrUserNotFound)
           ELSE /\ CanLock(p, u)
                /\ IF wallets[u] + 1 < op[p].amount
                   THEN Abort(p, ErrInsufficientBalance)
                   ELSE /\ lockHolder' = Locked(p, u)
                        /\ pc' = [pc EXCEPT ![p] = "debit"]
                        /\ UNCHANGED <<txWrite, txRec, result, failedAt>>
        /\ UNCHANGED <<storeVars, nextID, op, cacheVars, clientVars, callsMade>>

\* Variant of SelectForUpdate: the balance is not compared with the amount.
SelectNoBalanceCheck(p) ==
    LET u == op[p].user
    IN  /\ pc[p] = "select"
        /\ IF u \notin DOMAIN wallets
           THEN Abort(p, ErrUserNotFound)
           ELSE /\ CanLock(p, u)
                /\ lockHolder' = Locked(p, u)
                /\ pc' = [pc EXCEPT ![p] = "debit"]
                /\ UNCHANGED <<txWrite, txRec, result, failedAt>>
        /\ UNCHANGED <<storeVars, nextID, op, cacheVars, clientVars, callsMade>>

\* Variant of SelectForUpdate: a plain SELECT, which neither waits for the row
\* lock nor takes it.
SelectNoLock(p) ==
    LET u == op[p].user
    IN  /\ pc[p] = "select"
        /\ IF u \notin DOMAIN wallets
           THEN Abort(p, ErrUserNotFound)
           ELSE IF wallets[u] < op[p].amount
           THEN Abort(p, ErrInsufficientBalance)
           ELSE /\ pc' = [pc EXCEPT ![p] = "debit"]
                /\ UNCHANGED <<lockHolder, txWrite, txRec, result, failedAt>>
        /\ UNCHANGED <<storeVars, nextID, op, cacheVars, clientVars, callsMade>>

\* Withdraw / Transfer: SELECT balance FROM wallets WHERE user_id = $1 FOR UPDATE,
\* then the sql.ErrNoRows and currentBalance < amount checks.
SelectForUpdate(p) ==
    LET u == op[p].user
    IN  /\ pc[p] = "select"
        /\ IF u \notin DOMAIN wallets
           THEN Abort(p, ErrUserNotFound)
           ELSE /\ CanLock(p, u)
                /\ IF wallets[u] < op[p].amount
                   THEN Abort(p, ErrInsufficientBalance)
                   ELSE /\ lockHolder' = Locked(p, u)
                        /\ pc' = [pc EXCEPT ![p] = "debit"]
                        /\ UNCHANGED <<txWrite, txRec, result, failedAt>>
        /\ UNCHANGED <<storeVars, nextID, op, cacheVars, clientVars, callsMade>>

\* UPDATE wallets SET balance = balance + delta WHERE user_id = u.  An UPDATE
\* that matches no row succeeds with zero rows affected and takes no lock.
UpdateBalance(p, u, delta, nextPc) ==
    /\ IF u \in DOMAIN TxView(p)
       THEN /\ CanLock(p, u)
            /\ lockHolder' = Locked(p, u)
            /\ txWrite' = [txWrite EXCEPT ![p] = Put(@, u, TxView(p)[u] + delta)]
       ELSE UNCHANGED <<lockHolder, txWrite>>
    /\ pc' = [pc EXCEPT ![p] = nextPc]
    /\ UNCHANGED <<storeVars, nextID, op, txRec, result, failedAt, cacheVars,
                   clientVars, callsMade>>

\* Variant of DebitUpdate: the statement runs on r.db instead of tx, so that it
\* is committed on its own.
DebitAutocommit(p) ==
    /\ pc[p] = "debit"
    /\ CanLock(p, op[p].user)
    /\ wallets' = IF op[p].user \in DOMAIN wallets
                  THEN Put(wallets, op[p].user, wallets[op[p].user] - op[p].amount)
                  ELSE wallets
    /\ pc' = [pc EXCEPT ![p] = IF op[p].kind = "transfer" THEN "credit" ELSE "insert"]
    /\ UNCHANGED <<transactions, nextID, txVars, op, result, failedAt, cacheVars,
                   clientVars, callsMade>>

\* Withdraw / Transfer: UPDATE wallets SET balance = balance - $1 WHERE user_id = $2
DebitUpdate(p) ==
    /\ pc[p] = "debit"
    /\ UpdateBalance(p, op[p].user, 0 - op[p].amount,
                     IF op[p].kind = "transfer" THEN "credit" ELSE "insert")

\* Transfer: UPDATE wallets SET balance = balance + $1 WHERE user_id = $2 for
\* the receiver; ExecContext never returns sql.ErrNoRows.
\* Variant of CreditUpdate: the UPDATE has no WHERE clause and credits every
\* row of wallets.
CreditUpdateEveryRow(p) ==
    /\ pc[p] = "credit"
    /\ \A u \in DOMAIN TxView(p) \cap Users : CanLock(p, u)
    /\ lockHolder' = [u \in Users |->
                         IF u \in DOMAIN TxView(p) THEN p ELSE lockHolder[u]]
    /\ txWrite' = [txWrite EXCEPT ![p] =
                      [u \in DOMAIN TxView(p) |->
                          IF u = op[p].user THEN TxView(p)[u]
                          ELSE TxView(p)[u] + op[p].amount]]
    /\ pc' = [pc EXCEPT ![p] = "insert"]
    /\ UNCHANGED <<storeVars, nextID, op, txRec, result, failedAt, cacheVars,
                   clientVars, callsMade>>

CreditUpdate(p) ==
    /\ pc[p] = "credit"
    /\ UpdateBalance(p, op[p].to, op[p].amount, "insert")

\* The row inserted by INSERT INTO transactions (...).
NewTransaction(id, c) ==
    [id |-> id,
     from_user_id |-> c.user,
     to_user_id |-> IF c.kind = "transfer" THEN c.to ELSE NULL,
     amount |-> c.amount,
     type |-> c.kind]

\* Variant of InsertTransaction: the id is one more than the largest committed
\* id instead of the next value of the sequence.
InsertIdFromCommitted(p) ==
    LET ids == {transactions[i].id : i \in DOMAIN transactions} \cup {0}
        top == CHOOSE x \in ids : \A y \in ids : y <= x
    IN  /\ pc[p] = "insert"
        /\ txRec' = [txRec EXCEPT ![p] = Append(@, NewTransaction(top + 1, op[p]))]
        /\ pc' = [pc EXCEPT ![p] = "commit"]
        /\ UNCHANGED <<storeVars, nextID, lockHolder, op, txWrite, result, failedAt,
                       cacheVars, clientVars, callsMade>>

\* Variant of InsertTransaction: the statement runs on r.db instead of tx, so
\* that the record is committed on its own.
InsertAutocommit(p) ==
    /\ pc[p] = "insert"
    /\ transactions' = Append(transactions, NewTransaction(nextID, op[p]))
    /\ nextID' = nextID + 1
    /\ pc' = [pc EXCEPT ![p] = "commit"]
    /\ UNCHANGED <<wallets, txVars, op, result, failedAt, cacheVars,
                   clientVars, callsMade>>

\* Deposit / Withdraw / Transfer: INSERT INTO transactions (...) VALUES (...)
InsertTransaction(p) ==
    /\ pc[p] = "insert"
    /\ txRec' = [txRec EXCEPT ![p] = Append(@, NewTransaction(nextID, op[p]))]
    /\ nextID' = nextID + 1
    /\ pc' = [pc EXCEPT ![p] = "commit"]
    /\ UNCHANGED <<storeVars, lockHolder, op, txWrite, result, failedAt, cacheVars,
                   clientVars, callsMade>>

\* tx.Commit(): the writes of the transaction become visible at once and its
\* locks are released.
Commit(p) ==
    /\ pc[p] = "commit"
    /\ wallets' = TxView(p)
    /\ transactions' = transactions \o txRec[p]
    /\ lockHolder' = Released(p)
    /\ txWrite' = [txWrite EXCEPT ![p] = NoEntries]
    /\ txRec' = [txRec EXCEPT ![p] = << >>]
    /\ result' = [result EXCEPT ![p] = Res(0, ErrNil)]
    /\ pc' = [pc EXCEPT ![p] = RetPc(p)]
    /\ UNCHANGED <<nextID, op, failedAt, cacheVars, clientVars, callsMade>>

\* BeginTx, a statement or Commit returns an error (connection failure, context
\* cancellation, deadlock detected): `return err`, then the deferred tx.Rollback().
StmtFail(p) ==
    /\ InTx(p)
    /\ Abort(p, ErrStore)
    /\ UNCHANGED <<storeVars, nextID, op, cacheVars, clientVars, callsMade>>

\* Variant of RepoGetBalance: the SELECT sees the uncommitted row version of a
\* transaction in flight.
RepoGetBalanceDirty(userID) ==
    IF userID = "" THEN Res(0, ErrInvalidUserID)
    ELSE IF \E q \in Procs : userID \in DOMAIN txWrite[q]
    THEN Res(txWrite[CHOOSE q \in Procs : userID \in DOMAIN txWrite[q]][userID], ErrNil)
    ELSE IF userID \notin DOMAIN wallets THEN Res(0, ErrUserNotFound)
    ELSE Res(wallets[userID], ErrNil)

\* GetBalance: SELECT balance FROM wallets WHERE user_id = $1 (no lock).
RepoGetBalance(userID) ==
    IF userID = "" THEN Res(0, ErrInvalidUserID)
    ELSE IF userID \notin DOMAIN wallets THEN Res(0, ErrUserNotFound)
    ELSE Res(wallets[userID], ErrNil)

\* GetTransactionHistory: the rows that SELECT ... FROM transactions WHERE
\* from_user_id = $1 OR to_user_id = $1 finds (no lock).
HistoryRows(userID) ==
    {transactions[i] : i \in {j \in DOMAIN transactions :
                                 \/ transactions[j].from_user_id = userID
                                 \/ transactions[j].to_user_id = userID}}

----------------------------------------------------------------------------
(* Callers of the repository *)

RepoCalls ==
    {Call("repo", k, u, NULL, a) : k \in {"deposit", "withdrawal"}, u \in UserIDs, a \in Amounts}
    \cup {Call("repo", "transfer", u, t, a) : u \in UserIDs, t \in UserIDs, a \in Amounts}

\* A caller invokes Deposit, Withdraw or Transfer of the repository.
RepoCall(p) ==
    /\ pc[p] = "idle"
    /\ callsMade < MaxCalls
    /\ \E c \in RepoCalls : RepoEnter(p, c)
    /\ callsMade' = callsMade + 1
    /\ UNCHANGED <<storeVars, nextID, cacheVars, clientVars>>

\* A caller invokes GetBalance of the repository.
RepoRead(p) ==
    /\ pc[p] = "idle"
    /\ callsMade < MaxCalls
    /\ \E u \in UserIDs :
          /\ op' = [op EXCEPT ![p] = Call("repo", "balance", u, NULL, 0)]
          /\ result' = [result EXCEPT ![p] = RepoGetBalance(u)]
    /\ pc' = [pc EXCEPT ![p] = "done"]
    /\ failedAt' = [failedAt EXCEPT ![p] = "none"]
    /\ callsMade' = callsMade + 1
    /\ UNCHANGED <<storeVars, nextID, txVars, cacheVars, clientVars>>

\* The caller has its result and is ready for the next call.
Return(p) ==
    /\ pc[p] = "done"
    /\ pc' = [pc EXCEPT ![p] = "idle"]
    /\ op' = [op EXCEPT ![p] = NoCall]
    /\ result' = [result EXCEPT ![p] = Res(0, ErrNil)]
    /\ failedAt' = [failedAt EXCEPT ![p] = "none"]
    /\ UNCHANGED <<storeVars, nextID, txVars, cacheVars, clientVars, callsMade>>

----------------------------------------------------------------------------
(* CacheRepositoryImpl (Redis) *)

\* Variant of CacheGetBalance: the key of an empty userID is looked up like
\* any other.
CacheGetBalanceAnyKey(userID) ==
    IF userID \notin DOMAIN cache THEN Res(0, ErrRedisNil)
    ELSE Res(cache[userID], ErrNil)

\* GetBalance: client.Get of "balance:"+userID, then json.Unmarshal.
CacheGetBalance(userID) ==
    IF userID = "" THEN Res(0, ErrInvalidUserID)
    ELSE IF userID \notin DOMAIN cache THEN Res(0, ErrRedisNil)
    ELSE Res(cache[userID], ErrNil)

\* SetBalance: the cache after the call (client.Set of the marshalled balance
\* with the TTL, unless an argument is rejected).
CacheSetBalance(userID, balance) ==
    IF userID = "" THEN cache
    ELSE IF balance <= 0 THEN cache
    ELSE Put(cache, userID, balance)

\* SetBalance: the error it returns when Redis answers.
SetBalanceErr(userID, balance) ==
    IF userID = "" THEN ErrInvalidUserID
    ELSE IF balance <= 0 THEN ErrInvalidAmount
    ELSE ErrNil

\* Variant of CacheInvalidateBalance: the whole keyspace is flushed.
CacheInvalidateBalanceAll(userID) ==
    IF userID = "" THEN cache
    ELSE NoEntries

\* InvalidateBalance: the cache after the call (client.Del).
CacheInvalidateBalance(userID) ==
    IF userID = "" THEN cache
    ELSE Del(cache, userID)

\* InvalidateBalance: the error it returns when Redis answers (client.Del of
\* a missing key is no error).
InvalidateBalanceErr(userID) ==
    IF userID = "" THEN ErrInvalidUserID ELSE ErrNil

\* Variant of Expire: entries are stored without a TTL and never lapse.
ExpireNever ==
    /\ \E u \in {} : cache' = Del(cache, u)
    /\ UNCHANGED <<storeVars, nextID, txVars, pc, op, result, failedAt, tasks,
                   cacheErrs, clientVars, callsMade>>

\* The TTL of an entry lapses.
Expire ==
    /\ \E u \in DOMAIN cache : cache' = Del(cache, u)
    /\ UNCHANGED <<storeVars, nextID, txVars, pc, op, result, failedAt, tasks,
                   cacheErrs, clientVars, callsMade>>

\* Who made a cache call: a caller's thread or a detached goroutine.
Detached == "goroutine"
CacheCallers == Procs \cup {Detached}

\* A cache call of `who` returns a Redis error (connection lost, timeout) and
\* leaves the cache as it is.
CacheErr(who) ==
    /\ cacheErrs' = [cacheErrs EXCEPT ![who] = @ + 1]
    /\ cache' = cache

\* Direct calls of the three methods: any userID, and for SetBalance any
\* balance, negative ones included.
CacheBalances == {-1, 0, 1, 2}
CacheCalls ==
    {Call("cache", "get", u, NULL, 0) : u \in UserIDs}
    \cup {Call("cache", "set", u, NULL, b) : u \in UserIDs, b \in CacheBalances}
    \cup {Call("cache", "invalidate", u, NULL, 0) : u \in UserIDs}

\* The call reaches the Redis client: its arguments passed the checks.
ReachesRedis(c) ==
    c.user # "" /\ (c.kind = "set" => c.amount > 0)

CacheCall(p) ==
    /\ pc[p] = "idle"
    /\ \E c \in CacheCalls : op' = [op EXCEPT ![p] = c]
    /\ pc' = [pc EXCEPT ![p] = "cache_call"]
    /\ UNCHANGED <<storeVars, nextID, txVars, result, failedAt, cacheVars,
                   clientVars, callsMade>>

CacheGet(p) ==
    /\ pc[p] = "cache_call" /\ op[p].kind = "get"
    /\ result' = [result EXCEPT ![p] = CacheGetBalance(op[p].user)]
    /\ pc' = [pc EXCEPT ![p] = "done"]
    /\ UNCHANGED <<storeVars, nextID, txVars, op, failedAt, cacheVars,
                   clientVars, callsMade>>

CacheSet(p) ==
    /\ pc[p] = "cache_call" /\ op[p].kind = "set"
    /\ result' = [result EXCEPT ![p] = Res(0, SetBalanceErr(op[p].user, op[p].amount))]
    /\ cache' = CacheSetBalance(op[p].user, op[p].amount)
    /\ pc' = [pc EXCEPT ![p] = "done"]
    /\ UNCHANGED <<storeVars, nextID, txVars, op, failedAt, tasks, cacheErrs,
                   clientVars, callsMade>>

CacheInvalidate(p) ==
    /\ pc[p] = "cache_call" /\ op[p].kind = "invalidate"
    /\ result' = [result EXCEPT ![p] = Res(0, InvalidateBalanceErr(op[p].user))]
    /\ cache' = CacheInvalidateBalance(op[p].user)
    /\ pc' = [pc EXCEPT ![p] = "done"]
    /\ UNCHANGED <<storeVars, nextID, txVars, op, failedAt, tasks, cacheErrs,
                   clientVars, callsMade>>

\* The Redis command of the call returns an error, which the method returns
\* (GetBalance with balance 0).
CacheFail(p) ==
    /\ pc[p] = "cache_call" /\ ReachesRedis(op[p])
    /\ cacheErrs[p] < MaxCalls
    /\ CacheErr(p)
    /\ result' = [result EXCEPT ![p] = Res(0, ErrCache)]
    /\ pc' = [pc EXCEPT ![p] = "done"]
    /\ UNCHANGED <<storeVars, nextID, txVars, op, failedAt, tasks,
                   clientVars, callsMade>>

----------------------------------------------------------------------------
(* WalletService *)

InvalidateTask(userID) == [kind |-> "invalidate", user |-> userID, balance |-> 0]
SetTask(userID, balance) == [kind |-> "set", user |-> userID, balance |-> balance]

\* The checks WalletService.Deposit / Withdraw / Transfer make themselves;
\* "call" when the repository is called.
SvcValidate(c) ==
    IF c.amount <= 0 THEN ErrInvalidAmount
    ELSE IF c.kind = "transfer" /\ ((c.user = "" \/ c.to = "") \/ c.user = c.to)
         THEN ErrInvalidUserID
    ELSE "call"

\* Entry of a WalletService method.
SvcEnter(p, c) ==
    IF c.kind = "balance" \/ SvcValidate(c) # "call"
    THEN /\ op' = [op EXCEPT ![p] = c]
         /\ pc' = [pc EXCEPT ![p] = IF c.kind = "balance" THEN "svc_get" ELSE "done"]
         /\ result' = [result EXCEPT ![p] =
                          Res(0, IF c.kind = "balance" THEN ErrNil ELSE SvcValidate(c))]
         /\ failedAt' = [failedAt EXCEPT ![p] = "none"]
         /\ UNCHANGED txVars
    ELSE RepoEnter(p, c)

\* Variant of SvcAfterRepo: write-through, a successful Deposit stores its
\* amount in the cache instead of invalidating the entry.
SvcAfterRepoWriteThrough(p) ==
    /\ pc[p] = "repo_ret"
    /\ IF result[p].err # ErrNil
       THEN /\ pc' = [pc EXCEPT ![p] = "done"]
            /\ UNCHANGED tasks
       ELSE IF op[p].kind = "deposit"
       THEN /\ tasks' = tasks (+) SetToBag({SetTask(op[p].user, op[p].amount)})
            /\ pc' = [pc EXCEPT ![p] = "done"]
       ELSE /\ pc' = [pc EXCEPT ![p] = "svc_inv1"]
            /\ UNCHANGED tasks
    /\ UNCHANGED <<storeVars, nextID, txVars, op, result, failedAt, cache,
                   cacheErrs, clientVars, callsMade>>

\* Variant of SvcAfterRepo: the entries are invalidated whatever the
\* repository returned.
SvcAfterRepoAlways(p) ==
    /\ pc[p] = "repo_ret"
    /\ IF op[p].kind = "deposit"
       THEN /\ tasks' = tasks (+) SetToBag({InvalidateTask(op[p].user)})
            /\ pc' = [pc EXCEPT ![p] = "done"]
       ELSE /\ pc' = [pc EXCEPT ![p] = "svc_inv1"]
            /\ UNCHANGED tasks
    /\ UNCHANGED <<storeVars, nextID, txVars, op, result, failedAt, cache,
                   cacheErrs, clientVars, callsMade>>

\* Deposit / Withdraw / Transfer after the repository returned: on success
\* Deposit starts a goroutine that invalidates, Withdraw and Transfer go on to
\* invalidate themselves; the repository's error is what the caller gets.
SvcAfterRepo(p) ==
    /\ pc[p] = "repo_ret"
    /\ IF result[p].err # ErrNil
       THEN /\ pc' = [pc EXCEPT ![p] = "done"]
            /\ UNCHANGED tasks
       ELSE IF op[p].kind = "deposit"
       THEN /\ tasks' = tasks (+) SetToBag({InvalidateTask(op[p].user)})
            /\ pc' = [pc EXCEPT ![p] = "done"]
       ELSE /\ pc' = [pc EXCEPT ![p] = "svc_inv1"]
            /\ UNCHANGED tasks
    /\ UNCHANGED <<storeVars, nextID, txVars, op, result, failedAt, cache,
                   cacheErrs, clientVars, callsMade>>

\* Variant of SvcInvalidate: Transfer invalidates the sender's entry only.
SvcInvalidateSenderOnly(p) ==
    /\ pc[p] \in {"svc_inv1", "svc_inv2"}
    /\ cache' = CacheInvalidateBalance(op[p].user)
    /\ pc' = [pc EXCEPT ![p] = "done"]
    /\ UNCHANGED <<storeVars, nextID, txVars, op, result, failedAt, tasks,
                   cacheErrs, clientVars, callsMade>>

\* Withdraw / Transfer: _ = s.cache.InvalidateBalance(ctx, ...) in the caller's thread.
SvcInvalidate(p) ==
    /\ pc[p] \in {"svc_inv1", "svc_inv2"}
    /\ cache' = CacheInvalidateBalance(IF pc[p] = "svc_inv1" THEN op[p].user ELSE op[p].to)
    /\ pc' = [pc EXCEPT ![p] = IF pc[p] = "svc_inv1" /\ op[p].kind = "transfer"
                                THEN "svc_inv2" ELSE "done"]
    /\ UNCHANGED <<storeVars, nextID, txVars, op, result, failedAt, tasks,
                   cacheErrs, clientVars, callsMade>>

\* Variant of SvcInvalidateFail: the error of InvalidateBalance is returned to
\* the caller.
SvcInvalidateFailReturned(p) ==
    /\ pc[p] \in {"svc_inv1", "svc_inv2"}
    /\ CacheErr(p)
    /\ result' = [result EXCEPT ![p] = Res(0, ErrCache)]
    /\ pc' = [pc EXCEPT ![p] = "done"]
    /\ UNCHANGED <<storeVars, nextID, txVars, op, failedAt, tasks,
                   clientVars, callsMade>>

\* Withdraw / Transfer: InvalidateBalance returns an error, which is dropped
\* (`_ =`).
SvcInvalidateFail(p) ==
    /\ pc[p] \in {"svc_inv1", "svc_inv2"}
    /\ CacheErr(p)
    /\ pc' = [pc EXCEPT ![p] = IF pc[p] = "svc_inv1" /\ op[p].kind = "transfer"
                                THEN "svc_inv2" ELSE "done"]
    /\ UNCHANGED <<storeVars, nextID, txVars, op, result, failedAt, tasks,
                   clientVars, callsMade>>

\* Variant of SvcCacheGet: the cache is asked but the repository is read in
\* any case.
SvcCacheGetThenStore(p) ==
    /\ pc[p] = "svc_get"
    /\ pc' = [pc EXCEPT ![p] = "svc_read"]
    /\ UNCHANGED <<storeVars, nextID, txVars, op, result, failedAt, cacheVars,
                   clientVars, callsMade>>

\* GetBalance: the cache is asked first; a value without error is returned as
\* it is, any error (redis.Nil on a miss) sends GetBalance to the repository.
SvcCacheGet(p) ==
    /\ pc[p] = "svc_get"
    /\ IF CacheGetBalance(op[p].user).err = ErrNil
       THEN /\ result' = [result EXCEPT ![p] = CacheGetBalance(op[p].user)]
            /\ pc' = [pc EXCEPT ![p] = "done"]
            /\ UNCHANGED failedAt
       ELSE /\ pc' = [pc EXCEPT ![p] = "svc_read"]
            /\ failedAt' = [failedAt EXCEPT ![p] = "svc_get"]
            /\ UNCHANGED result
    /\ UNCHANGED <<storeVars, nextID, txVars, op, cacheVars, clientVars, callsMade>>

\* Variant of SvcCacheGetFail: the error of the cache read is returned to the
\* caller.
SvcCacheGetFailReturned(p) ==
    /\ pc[p] = "svc_get"
    /\ CacheErr(p)
    /\ pc' = [pc EXCEPT ![p] = "done"]
    /\ result' = [result EXCEPT ![p] = Res(0, ErrCache)]
    /\ failedAt' = [failedAt EXCEPT ![p] = "svc_get"]
    /\ UNCHANGED <<storeVars, nextID, txVars, op, tasks, clientVars, callsMade>>

\* GetBalance: the cache call returns a Redis error; any error sends
\* GetBalance to the repository.
SvcCacheGetFail(p) ==
    /\ pc[p] = "svc_get"
    /\ CacheErr(p)
    /\ pc' = [pc EXCEPT ![p] = "svc_read"]
    /\ failedAt' = [failedAt EXCEPT ![p] = "svc_get"]
    /\ UNCHANGED <<storeVars, nextID, txVars, op, result, tasks,
                   clientVars, callsMade>>

\* GetBalance: fallback to the repository; on success a goroutine is started
\* that stores the balance in the cache, and the balance is returned.
SvcRepoGetBalance(p) ==
    /\ pc[p] = "svc_read"
    /\ result' = [result EXCEPT ![p] = RepoGetBalance(op[p].user)]
    /\ IF RepoGetBalance(op[p].user).err = ErrNil
       THEN tasks' = tasks (+) SetToBag({SetTask(op[p].user, RepoGetBalance(op[p].user).val)})
       ELSE UNCHANGED tasks
    /\ pc' = [pc EXCEPT ![p] = "done"]
    /\ UNCHANGED <<storeVars, nextID, txVars, op, failedAt, cache,
                   cacheErrs, clientVars, callsMade>>

\* GetBalance: the query of the repository fails; `return 0, err`, and no
\* goroutine is started.
SvcRepoGetBalanceFail(p) ==
    /\ pc[p] = "svc_read"
    /\ result' = [result EXCEPT ![p] = Res(0, ErrStore)]
    /\ pc' = [pc EXCEPT ![p] = "done"]
    /\ UNCHANGED <<storeVars, nextID, txVars, op, failedAt, cacheVars,
                   clientVars, callsMade>>

\* A detached goroutine of Deposit or GetBalance runs its cache call.
TaskRun ==
    /\ \E t \in BagToSet(tasks) :
          /\ tasks' = tasks (-) SetToBag({t})
          /\ cache' = IF t.kind = "invalidate" THEN CacheInvalidateBalance(t.user)
                      ELSE CacheSetBalance(t.user, t.balance)
    /\ UNCHANGED <<storeVars, nextID, txVars, pc, op, result, failedAt,
                   cacheErrs, clientVars, callsMade>>

\* The cache call of a detached goroutine returns a Redis error, which is
\* dropped (`_ =`).
TaskFail ==
    /\ \E t \in BagToSet(tasks) : tasks' = tasks (-) SetToBag({t})
    /\ CacheErr(Detached)
    /\ UNCHANGED <<storeVars, nextID, txVars, pc, op, result, failedAt,
                   clientVars, callsMade>>

----------------------------------------------------------------------------
(* A single client that issues a fixed sequence of service calls *)

Scenario ==
    << Call("svc", "deposit", "user1", NULL, 100),
       Call("svc", "balance", "user1", NULL, 0),
       Call("svc", "withdrawal", "user1", NULL, 150),
       Call("svc", "balance", "user1", NULL, 0),
       Call("svc", "transfer", "user1", "user2", 40),
       Call("svc", "balance", "user1", NULL, 0),
       Call("svc", "balance", "user2", NULL, 0) >>

Client == "p1"

ScriptCall ==
    /\ pc[Client] = "idle"
    /\ script # << >>
    /\ SvcEnter(Client, Head(script))
    /\ script' = Tail(script)
    /\ UNCHANGED <<storeVars, nextID, cacheVars, results, bal0, callsMade>>

ScriptReturn ==
    /\ pc[Client] = "done"
    /\ results' = Append(results, result[Client])
    /\ pc' = [pc EXCEPT ![Client] = "idle"]
    /\ op' = [op EXCEPT ![Client] = NoCall]
    /\ result' = [result EXCEPT ![Client] = Res(0, ErrNil)]
    /\ failedAt' = [failedAt EXCEPT ![Client] = "none"]
    /\ UNCHANGED <<storeVars, nextID, txVars, cacheVars, script, bal0, callsMade>>

----------------------------------------------------------------------------
(* Two callers that each make one repository call, started from a store that *)
(* earlier deposits have filled                                              *)

SeedBalances == {2, 4}
UserOrder == <<"user1", "user2">>

\* The transactions table after one deposit for each user that has a wallet in b.
RECURSIVE SeedLog(_, _, _)
SeedLog(b, i, id) ==
    IF i > Len(UserOrder) THEN << >>
    ELSE IF UserOrder[i] \in DOMAIN b
         THEN <<NewTransaction(id, Call("repo", "deposit", UserOrder[i], NULL, b[UserOrder[i]]))>>
              \o SeedLog(b, i + 1, id + 1)
         ELSE SeedLog(b, i + 1, id)

SeedStores == UNION {[S -> SeedBalances] : S \in SUBSET Users}

RaceCalls ==
    {Call("repo", k, u, NULL, a) : k \in {"deposit", "withdrawal"}, u \in Users, a \in Amounts \ {0}}
    \cup {Call("repo", "transfer", u, t, a) : u \in Users, t \in Users, a \in Amounts \ {0}}

RaceCall(p) ==
    /\ pc[p] = "idle"
    /\ \E c \in RaceCalls : RepoEnter(p, c)
    /\ UNCHANGED <<storeVars, nextID, cacheVars, clientVars, callsMade>>

----------------------------------------------------------------------------
(* Specifications *)

InitCallers ==
    /\ lockHolder = [u \in Users |-> Free]
    /\ pc = [p \in Procs |-> "idle"]
    /\ op = [p \in Procs |-> NoCall]
    /\ txWrite = [p \in Procs |-> NoEntries]
    /\ txRec = [p \in Procs |-> << >>]
    /\ result = [p \in Procs |-> Res(0, ErrNil)]
    /\ failedAt = [p \in Procs |-> "none"]
    /\ cache = NoEntries
    /\ tasks = EmptyBag
    /\ cacheErrs = [w \in CacheCallers |-> 0]
    /\ results = << >>
    /\ callsMade = 0

\* The store under concurrent callers of the repository, from an empty database.
Init ==
    /\ wallets = NoEntries
    /\ transactions = << >>
    /\ nextID = 1
    /\ script = << >>
    /\ bal0 = wallets
    /\ InitCallers

Next ==
    \E p \in Procs :
        \/ RepoCall(p)
        \/ RepoRead(p)
        \/ DepositUpsert(p)
        \/ SelectForUpdate(p)
        \/ DebitUpdate(p)
        \/ CreditUpdate(p)
        \/ InsertTransaction(p)
        \/ Commit(p)
        \/ StmtFail(p)
        \/ Return(p)

Spec == Init /\ [][Next]_vars

\* One mutation per caller, racing on a filled store.
InitRace ==
    /\ wallets \in SeedStores
    /\ transactions = SeedLog(wallets, 1, 1)
    /\ nextID = Len(transactions) + 1
    /\ script = << >>
    /\ bal0 = wallets
    /\ InitCallers

NextRace ==
    \E p \in Procs :
        \/ RaceCall(p)
        \/ DepositUpsert(p)
        \/ SelectForUpdate(p)
        \/ DebitUpdate(p)
        \/ CreditUpdate(p)
        \/ InsertTransaction(p)
        \/ Commit(p)
        \/ StmtFail(p)

RaceSpec == InitRace /\ [][NextRace]_vars

\* The scripted client through the service, from an empty database and cache.
InitScenario ==
    /\ wallets = NoEntries
    /\ transactions = << >>
    /\ nextID = 1
    /\ script = Scenario
    /\ bal0 = wallets
    /\ InitCallers

NextScenario ==
    \/ ScriptCall
    \/ DepositUpsert(Client)
    \/ SelectForUpdate(Client)
    \/ DebitUpdate(Client)
    \/ CreditUpdate(Client)
    \/ InsertTransaction(Client)
    \/ Commit(Client)
    \/ SvcAfterRepo(Client)
    \/ SvcInvalidate(Client)
    \/ SvcCacheGet(Client)
    \/ SvcRepoGetBalance(Client)
    \/ TaskRun
    \/ Expire
    \/ ScriptReturn

ScenarioSpec == InitScenario /\ [][NextScenario]_vars

----------------------------------------------------------------------------
(* Properties *)

\* Balance of u in the wallets table w, 0 when u has no row.
Bal(w, u) == IF u \in DOMAIN w THEN w[u] ELSE 0

\* Signed amount of record t for user u.
Signed(t, u) ==
    IF t.type = "deposit" THEN (IF t.from_user_id = u THEN t.amount ELSE 0)
    ELSE IF t.type = "withdrawal" THEN (IF t.from_user_id = u THEN 0 - t.amount ELSE 0)
    ELSE (IF t.from_user_id = u THEN 0 - t.amount ELSE 0)
         + (IF t.to_user_id = u THEN t.amount ELSE 0)

RECURSIVE SignedSum(_, _)
SignedSum(log, u) ==
    IF log = << >> THEN 0 ELSE Signed(Head(log), u) + SignedSum(Tail(log), u)

\* Number of records of the given type whose from_user_id is u.
CountType(log, u, type) ==
    Cardinality({i \in 1..Len(log) : log[i].type = type /\ log[i].from_user_id = u})

AllDone == \A p \in Procs : pc[p] = "done"

Succeeded == {p \in Procs : result[p].err = ErrNil}

RECURSIVE SumAmount(_)
SumAmount(S) ==
    IF S = {} THEN 0
    ELSE LET p == CHOOSE x \in S : TRUE IN op[p].amount + SumAmount(S \ {p})

\* The step is the return of p's repository mutation with the given outcome.
Returns(p) == InTx(p) /\ pc'[p] = "done"

\* C1: in every committed state each user's balance (0 without a wallet row)
\* equals the signed sum of the transaction records that reference the user.
C1_Reconciliation ==
    \A u \in Users : Bal(wallets, u) = SignedSum(transactions, u)

\* C2: no wallet balance is ever negative in a committed state.
C2_NonNegative ==
    \A u \in DOMAIN wallets : wallets[u] >= 0

C2_Witness ==
    \E p \in Procs, q \in Procs :
        /\ p # q /\ pc[p] = "done" /\ pc[q] = "done"
        /\ op[p].kind = "withdrawal" /\ op[q].kind = "withdrawal"
        /\ op[p].user = op[q].user
        /\ result[p].err = ErrNil /\ result[q].err = ErrInsufficientBalance
        /\ op[p].user \in DOMAIN wallets /\ wallets[op[p].user] = 0

\* C3: when a Transfer commits, the receiver has a wallet whose balance is its
\* old balance (0 if it had no wallet) plus the amount.
C3_TransferCreditsReceiver ==
    [][\A p \in Procs :
          (Returns(p) /\ op[p].kind = "transfer" /\ result'[p].err = ErrNil)
          => /\ op[p].to \in DOMAIN wallets'
             /\ wallets'[op[p].to] = Bal(wallets, op[p].to) + op[p].amount
      ]_vars

\* Every step either leaves balances and log alone or appends one record, the
\* record of the call that returns success in that step; every balance that
\* changes in the step is that of a user the record names and changes by the
\* record's signed amount, and the balance of from_user_id does change.
AtomicCommitStep ==
    [][LET n == Len(transactions)
       IN  /\ Len(transactions') \in {n, n + 1}
           /\ SubSeq(transactions', 1, n) = transactions
           /\ Len(transactions') = n => wallets' = wallets
           /\ Len(transactions') = n + 1 =>
                 LET r == transactions'[n + 1]
                 IN  /\ Bal(wallets', r.from_user_id)
                           = Bal(wallets, r.from_user_id) + Signed(r, r.from_user_id)
                     /\ \A u \in Users :
                           wallets' # wallets /\ Bal(wallets', u) # Bal(wallets, u)
                           => Bal(wallets', u) = Bal(wallets, u) + Signed(r, u)
                     /\ \E p \in Procs : /\ Returns(p) /\ result'[p].err = ErrNil
                                         /\ r = NewTransaction(r.id, op[p])
           /\ \A p \in Procs :
                 (Returns(p) /\ result'[p].err = ErrNil) => Len(transactions') = n + 1
      ]_vars

\* C4: every successful Deposit, Withdraw or Transfer appends exactly one
\* record, and the record and the balance changes it stands for become visible
\* in the same step: when a record appears, every user it names has a wallet
\* whose balance has moved by the record's signed amount, and a step without a
\* new record changes no balance.
C4_RecordWithBalance ==
    [][LET n == Len(transactions)
       IN  /\ Len(transactions') \in {n, n + 1}
           /\ SubSeq(transactions', 1, n) = transactions
           /\ Len(transactions') = n => wallets' = wallets
           /\ Len(transactions') = n + 1 =>
                 LET r == transactions'[n + 1]
                 IN  /\ \A u \in Users :
                           Bal(wallets', u) = Bal(wallets, u) + Signed(r, u)
                     /\ \A u \in Users :
                           u \in {r.from_user_id, r.to_user_id} => u \in DOMAIN wallets'
           /\ \A p \in Procs :
                 (Returns(p) /\ result'[p].err = ErrNil) => Len(transactions') = n + 1
      ]_vars

\* C5: the scenario deposit(user1,100); balance; withdraw(user1,150); balance;
\* transfer(user1->user2,40); balance(user1); balance(user2) through the
\* service yields ok, 100, InsufficientBalance, 100, ok, 60, 40 and one
\* transfer record with both identifiers.
C5_ScenarioResults ==
    (script = << >> /\ pc[Client] = "idle" /\ Len(results) = Len(Scenario))
    => /\ results = << Res(0, ErrNil), Res(100, ErrNil), Res(0, ErrInsufficientBalance),
                       Res(100, ErrNil), Res(0, ErrNil), Res(60, ErrNil), Res(40, ErrNil) >>
       /\ \E i \in 1..Len(transactions) :
             /\ transactions[i].type = "transfer"
             /\ transactions[i].from_user_id = "user1"
             /\ transactions[i].to_user_id = "user2"
             /\ transactions[i].amount = 40
             /\ \A j \in 1..Len(transactions) : transactions[j].type = "transfer" => j = i

\* C6: a Withdraw or Transfer whose SELECT ... FOR UPDATE reads a balance
\* smaller than the amount returns InsufficientBalance, and that return leaves
\* every balance and the transaction log as they were, with nothing written.
C6_InsufficientBalance ==
    [][\A p \in Procs :
          (/\ pc[p] = "select" /\ pc'[p] # "select"
           /\ result'[p].err # ErrStore
           /\ op[p].user \in DOMAIN wallets
           /\ op[p].amount > wallets[op[p].user])
          => /\ pc'[p] = "done"
             /\ result'[p] = Res(0, ErrInsufficientBalance)
             /\ wallets' = wallets
             /\ transactions' = transactions
             /\ txWrite'[p] = NoEntries /\ txWrite[p] = NoEntries
             /\ txRec'[p] = << >> /\ txRec[p] = << >>
             /\ \A u \in Users : lockHolder'[u] # p
      ]_vars

C6_Witness ==
    \E p \in Procs, q \in Procs :
        /\ pc[p] = "done" /\ op[p].kind = "withdrawal"
        /\ result[p].err = ErrInsufficientBalance
        /\ pc[q] = "done" /\ op[q].kind = "transfer"
        /\ result[q].err = ErrInsufficientBalance
        /\ op[q].user \in DOMAIN wallets

\* C7: when all callers ran a Withdraw on the same wallet, the final balance
\* is the initial balance minus the amounts of the withdrawals that returned
\* success, it is not negative, there is one withdrawal record per success, and
\* if the amounts together do not exceed the initial balance (N withdrawals of
\* B/N each) no call is refused: each succeeds unless the store itself failed.
C7_ConcurrentWithdrawals ==
    \A u \in Users :
        (AllDone /\ \A p \in Procs : op[p].kind = "withdrawal" /\ op[p].user = u)
        => /\ Bal(wallets, u) = Bal(bal0, u) - SumAmount(Succeeded)
           /\ Bal(wallets, u) >= 0
           /\ CountType(transactions, u, "withdrawal") = Cardinality(Succeeded)
           /\ (u \in DOMAIN bal0 /\ SumAmount(Procs) <= bal0[u])
                 => \A p \in Procs : result[p].err \in {ErrNil, ErrStore}

C7_Witness ==
    /\ AllDone
    /\ \A p \in Procs : /\ op[p].kind = "withdrawal" /\ op[p].user = "user1"
                        /\ result[p].err = ErrNil
    /\ "user1" \in DOMAIN bal0
    /\ SumAmount(Procs) = bal0["user1"]
    /\ wallets["user1"] = 0

\* C8: when all callers ran a Deposit to the same user, wallet present or not
\* at the start, the final balance is the initial balance plus the amounts of
\* the deposits that returned success, with one deposit record per success;
\* a deposit is never refused.
C8_ConcurrentDeposits ==
    \A u \in Users :
        (AllDone /\ \A p \in Procs : op[p].kind = "deposit" /\ op[p].user = u)
        => /\ Bal(wallets, u) = Bal(bal0, u) + SumAmount(Succeeded)
           /\ Succeeded # {} => u \in DOMAIN wallets
           /\ CountType(transactions, u, "deposit")
                 = CountType(SeedLog(bal0, 1, 1), u, "deposit") + Cardinality(Succeeded)
           /\ \A p \in Procs : result[p].err \in {ErrNil, ErrStore}

C8_Witness ==
    /\ AllDone
    /\ \A p \in Procs : /\ op[p].kind = "deposit" /\ op[p].user = "user1"
                        /\ result[p].err = ErrNil
    /\ "user1" \notin DOMAIN bal0
    /\ wallets["user1"] = SumAmount(Procs)
    /\ CountType(transactions, "user1", "deposit") = Cardinality(Procs)

\* C9: a Deposit, Withdraw or Transfer that returns an error after its atomic
\* unit began leaves balances and transaction log untouched, keeps no write and
\* no lock; and the committed state changes only in the step in which a
\* mutation commits and returns success.
C9_AllOrNothing ==
    [][/\ \A p \in Procs :
             (Returns(p) /\ result'[p].err # ErrNil)
             => /\ wallets' = wallets
                /\ transactions' = transactions
                /\ txWrite'[p] = NoEntries
                /\ txRec'[p] = << >>
                /\ \A u \in Users : lockHolder'[u] # p
       /\ (wallets' # wallets \/ transactions' # transactions)
             => \E p \in Procs : /\ pc[p] = "commit" /\ pc'[p] = "done"
                                 /\ result'[p].err = ErrNil
      ]_vars

C9_Witness ==
    \E p \in Procs :
        /\ pc[p] = "done" /\ op[p].kind = "transfer"
        /\ result[p].err = ErrStore /\ failedAt[p] = "commit"
        /\ transactions # << >>
        /\ Bal(wallets, op[p].user) >= op[p].amount

\* The row whose lock the next statement of p has to take.
NeedsLock(p, u) ==
    \/ pc[p] = "upsert" /\ u = op[p].user
    \/ pc[p] = "select" /\ u = op[p].user /\ u \in DOMAIN wallets
    \/ pc[p] = "debit" /\ u = op[p].user /\ u \in DOMAIN TxView(p)
    \/ pc[p] = "credit" /\ u = op[p].to /\ u \in DOMAIN TxView(p)

\* p waits for a row lock that q holds.
WaitsFor(p, q) == p # q /\ \E u \in Users : NeedsLock(p, u) /\ lockHolder[u] = q

\* C10: a Transfer holds a row lock on the sender's row only, and no state is
\* reachable in which two Transfers each hold a row the other waits for.
C10_TransferLocksOnlySender ==
    /\ \A p \in Procs : \A u \in Users :
          (op[p].kind = "transfer" /\ lockHolder[u] = p) => u = op[p].user
    /\ ~ \E p \in Procs, q \in Procs :
            /\ op[p].kind = "transfer" /\ op[q].kind = "transfer"
            /\ WaitsFor(p, q) /\ WaitsFor(q, p)

\* The two-row deadlock of two opposite Transfers.
TransferDeadlock ==
    \E p \in Procs, q \in Procs :
        /\ op[p].kind = "transfer" /\ op[q].kind = "transfer"
        /\ op[p].user = op[q].to /\ op[p].to = op[q].user
        /\ WaitsFor(p, q) /\ WaitsFor(q, p)

NoTransferDeadlock == ~TransferDeadlock

----------------------------------------------------------------------------
(* Progress of the store operations *)

\* The callers reached from the callers in S along n waits-for edges or fewer.
RECURSIVE WaitChain(_, _)
WaitChain(S, n) ==
    IF n = 0 THEN S
    ELSE WaitChain(S \cup {q \in Procs : \E r \in S : WaitsFor(r, q)}, n - 1)

\* p is part of a cycle of transactions that wait for each other.
InWaitCycle(p) == p \in WaitChain({q \in Procs : WaitsFor(p, q)}, Cardinality(Procs))

\* PostgreSQL finds a cycle of lock waits and makes the statement of one of the
\* waiting transactions fail ("deadlock detected"): `return err`, then the
\* deferred tx.Rollback().
DeadlockAbort(p) ==
    /\ InTx(p)
    /\ InWaitCycle(p)
    /\ Abort(p, ErrDeadlock)
    /\ UNCHANGED <<storeVars, nextID, op, cacheVars, clientVars, callsMade>>

\* A statement of p's transaction, or its commit, runs.
TxStep(p) ==
    \/ DepositUpsert(p)
    \/ SelectForUpdate(p)
    \/ DebitUpdate(p)
    \/ CreditUpdate(p)
    \/ InsertTransaction(p)
    \/ Commit(p)

NextFairRace ==
    \E p \in Procs :
        \/ RaceCall(p)
        \/ DepositUpsert(p)
        \/ SelectForUpdate(p)
        \/ DebitUpdate(p)
        \/ CreditUpdate(p)
        \/ InsertTransaction(p)
        \/ Commit(p)
        \/ StmtFail(p)
        \/ DeadlockAbort(p)

\* The database executes a statement that does not have to wait, and its
\* deadlock detector resolves every cycle of waits.
FairStore == \A p \in Procs : WF_vars(TxStep(p)) /\ WF_vars(DeadlockAbort(p))

\* One mutation per caller racing on a filled store, under a fair database.
FairRaceSpec == InitRace /\ [][NextFairRace]_vars /\ FairStore

\* C11: every Deposit, Withdraw or Transfer that entered its atomic unit
\* eventually returns (committed or rolled back), whatever the other caller
\* does, and a row lock is held only by a caller that is inside its atomic unit.
C11_NoIndefiniteBlocking ==
    /\ \A p \in Procs : InTx(p) ~> (pc[p] = "done")
    /\ [](\A u \in Users : lockHolder[u] # Free => InTx(lockHolder[u]))

\* Two opposite Transfers that waited for each other have both returned, one of
\* them with the error of the cancelled statement, and no lock is left.
C11_Witness ==
    \E p \in Procs, q \in Procs :
        /\ pc[p] = "done" /\ pc[q] = "done"
        /\ op[p].kind = "transfer" /\ op[q].kind = "transfer"
        /\ op[p].user = op[q].to /\ op[p].to = op[q].user
        /\ result[p].err = ErrDeadlock /\ failedAt[p] = "credit"
        /\ result[q].err = ErrNil
        /\ \A u \in Users : lockHolder[u] = Free

----------------------------------------------------------------------------
(* Concurrent calls against calls made one after the other *)

\* The error Deposit, Withdraw or Transfer returns for call c when it runs
\* alone on the wallets table w and no statement fails.
SeqErr(w, c) ==
    LET v == IF c.kind = "transfer" THEN ValidateTransfer(c.user, c.to, c.amount)
             ELSE ValidateUserAmount(c.user, c.amount)
    IN  IF v # "begin" THEN v
        ELSE IF c.kind = "deposit" THEN ErrNil
        ELSE IF c.user \notin DOMAIN w THEN ErrUserNotFound
        ELSE IF w[c.user] < c.amount THEN ErrInsufficientBalance
        ELSE ErrNil

\* The wallets table after call c ran alone on w.
SeqWallets(w, c) ==
    IF SeqErr(w, c) # ErrNil THEN w
    ELSE IF c.kind = "deposit" THEN Put(w, c.user, Bal(w, c.user) + c.amount)
    ELSE IF c.kind = "withdrawal" THEN Put(w, c.user, w[c.user] - c.amount)
    ELSE LET d == Put(w, c.user, w[c.user] - c.amount)
         IN  IF c.to \in DOMAIN d THEN Put(d, c.to, d[c.to] + c.amount) ELSE d

\* The calls of the callers s[i], s[i+1], ... made one after the other on w.  A
\* call that failed with ErrStore (connection lost, context cancelled) fails
\* the same way and changes nothing.
RECURSIVE SeqRun(_, _, _)
SeqRun(w, s, i) ==
    IF i > Len(s) THEN [w |-> w, err |-> [q \in {} |-> ErrNil], log |-> << >>]
    ELSE LET p == s[i]
             e == IF result[p].err = ErrStore THEN ErrStore ELSE SeqErr(w, op[p])
             rest == SeqRun(IF e = ErrStore THEN w ELSE SeqWallets(w, op[p]), s, i + 1)
         IN  [w |-> rest.w,
              err |-> Put(rest.err, p, e),
              log |-> (IF e = ErrNil THEN <<NewTransaction(0, op[p])>> ELSE << >>) \o rest.log]

\* The orders in which the callers can make their calls one after the other.
Orders ==
    {s \in [1..Cardinality(Procs) -> Procs] : \A i, j \in DOMAIN s : s[i] = s[j] => i = j}

\* A transactions row without its id.
Strip(t) == [t EXCEPT !.id = 0]

\* The two logs hold the same records, ids aside.
SameRecords(a, b) ==
    /\ Len(a) = Len(b)
    /\ \A i \in DOMAIN a :
          Cardinality({j \in DOMAIN a : Strip(a[j]) = Strip(a[i])})
          = Cardinality({j \in DOMAIN b : Strip(b[j]) = Strip(a[i])})

\* The wallet rows call c reads or writes.
Touched(c) == IF c.kind = "transfer" THEN {c.user, c.to} ELSE {c.user}

\* The committed state and the results are those of the calls made in order s.
SameAsOrder(s) ==
    LET o == SeqRun(bal0, s, 1)
    IN  /\ wallets = o.w
        /\ SameRecords(transactions, SeedLog(bal0, 1, 1) \o o.log)
        /\ \A p \in Procs : result[p].err = o.err[p]

\* C12: when both concurrent mutations have returned, balances, log (as a set
\* of records) and each call's result are those of the same calls made one
\* after the other in some order; and a caller waits for another only when
\* their calls touch a common wallet.
C12_Serializable ==
    /\ AllDone => \E s \in Orders : SameAsOrder(s)
    /\ \A p \in Procs, q \in Procs :
          WaitsFor(p, q) => Touched(op[p]) \cap Touched(op[q]) # {}

\* C12 for the executions in which no transaction is cancelled by the deadlock
\* detector.
SerializableWithoutDeadlock ==
    (AllDone /\ \A p \in Procs : result[p].err # ErrDeadlock)
        => \E s \in Orders : SameAsOrder(s)

----------------------------------------------------------------------------
(* Reads of the store *)

\* The step is a GetBalance of the repository made by p.
ReadStep(p) == pc[p] = "idle" /\ pc'[p] = "done" /\ op'[p].kind = "balance"

\* C13: a GetBalance of the store can run whenever a caller is ready for it,
\* whoever holds row locks; it returns the committed row (or ErrUserNotFound
\* when no row is committed) and takes no lock; and no row inserted by a
\* transaction that has not committed is among the rows GetTransactionHistory
\* selects.
C13_ReadsCommitted ==
    /\ [](\A p \in Procs : (pc[p] = "idle" /\ callsMade < MaxCalls) => ENABLED RepoRead(p))
    /\ [][\A p \in Procs : \A u \in Users :
             (ReadStep(p) /\ op'[p].user = u)
             => /\ result'[p] = IF u \in DOMAIN wallets THEN Res(wallets[u], ErrNil)
                                 ELSE Res(0, ErrUserNotFound)
                /\ UNCHANGED <<storeVars, txVars>>]_vars
    /\ [](\A q \in Procs : \A i \in DOMAIN txRec[q] : \A u \in Users :
             txRec[q][i] \notin HistoryRows(u))

\* A GetBalance has returned the committed balance of a row that another
\* caller's open transaction holds locked with a different, uncommitted balance.
C13_Witness ==
    \E p \in Procs, q \in Procs :
        /\ pc[p] = "done" /\ op[p].kind = "balance" /\ result[p].err = ErrNil
        /\ InTx(q) /\ lockHolder[op[p].user] = q
        /\ op[p].user \in DOMAIN txWrite[q]
        /\ txRec[q] # << >>
        /\ txWrite[q][op[p].user] # result[p].val
        /\ result[p].val = wallets[op[p].user]

----------------------------------------------------------------------------
(* Concurrent callers of WalletService *)

SvcCalls ==
    {Call("svc", k, u, NULL, a) : k \in {"deposit", "withdrawal"}, u \in UserIDs, a \in Amounts}
    \cup {Call("svc", "transfer", u, t, a) : u \in UserIDs, t \in UserIDs, a \in Amounts}
    \cup {Call("svc", "balance", u, NULL, 0) : u \in UserIDs}

\* A caller invokes Deposit, Withdraw, Transfer or GetBalance of the service.
SvcCall(p) ==
    /\ pc[p] = "idle"
    /\ \E c \in SvcCalls : SvcEnter(p, c)
    /\ UNCHANGED <<storeVars, nextID, cacheVars, clientVars, callsMade>>

\* One service call per caller, on a filled store and an empty cache.
InitSvc ==
    /\ wallets \in SeedStores
    /\ transactions = SeedLog(wallets, 1, 1)
    /\ nextID = Len(transactions) + 1
    /\ script = << >>
    /\ bal0 = wallets
    /\ InitCallers

NextSvc ==
    \/ \E p \in Procs :
          \/ SvcCall(p)
          \/ DepositUpsert(p)
          \/ SelectForUpdate(p)
          \/ DebitUpdate(p)
          \/ CreditUpdate(p)
          \/ InsertTransaction(p)
          \/ Commit(p)
          \/ StmtFail(p)
          \/ DeadlockAbort(p)
          \/ SvcAfterRepo(p)
          \/ SvcInvalidate(p)
          \/ SvcInvalidateFail(p)
          \/ SvcCacheGet(p)
          \/ SvcCacheGetFail(p)
          \/ SvcRepoGetBalance(p)
          \/ SvcRepoGetBalanceFail(p)
    \/ TaskRun
    \/ TaskFail
    \/ Expire

SvcSpec == InitSvc /\ [][NextSvc]_vars

\* A step of WalletService in p's thread whose cache or repository call succeeds.
SvcStep(p) ==
    \/ SvcAfterRepo(p)
    \/ SvcInvalidate(p)
    \/ SvcCacheGet(p)
    \/ SvcRepoGetBalance(p)

\* The threads of the callers and the detached goroutines are scheduled, and
\* the TTL of every entry lapses at some time.
FairSvc ==
    /\ FairStore
    /\ \A p \in Procs : WF_vars(SvcStep(p))
    /\ WF_vars(TaskRun \/ TaskFail)
    /\ \A u \in Users : WF_vars(Expire /\ u \notin DOMAIN cache')

FairSvcSpec == SvcSpec /\ FairSvc

----------------------------------------------------------------------------
(* Properties of WalletService *)

\* The step is the return of p's service call with success.
SvcSucceeds(p) ==
    /\ pc[p] # "done" /\ pc'[p] = "done"
    /\ op'[p].via = "svc" /\ result'[p].err = ErrNil

\* p's mutation is committed: its record is in the log and it holds nothing.
Committed(p) ==
    /\ \E i \in DOMAIN transactions : Strip(transactions[i]) = NewTransaction(0, op[p])
    /\ txWrite[p] = NoEntries /\ txRec[p] = << >>
    /\ \A u \in Users : lockHolder[u] # p

\* The step is p's call of InvalidateBalance(u): the entry is deleted or the
\* call returns a Redis error.
InvalidateCall(p, u) ==
    \/ cache' = CacheInvalidateBalance(u) /\ cacheErrs' = cacheErrs
    \/ cache' = cache /\ cacheErrs'[p] = cacheErrs[p] + 1

\* C14: a successful Withdraw returns from its InvalidateBalance call for the
\* user, a successful Transfer from the call for the receiver, which follows
\* the call for the sender; a successful Deposit leaves a goroutine that calls
\* InvalidateBalance for the user, and that goroutine runs; every one of these
\* calls and goroutines is started by a caller whose mutation is committed.
C14_InvalidateAfterCommit ==
    /\ [][\A p \in Procs :
             /\ (SvcSucceeds(p) /\ op[p].kind = "withdrawal")
                   => pc[p] = "svc_inv1" /\ InvalidateCall(p, op[p].user)
             /\ (SvcSucceeds(p) /\ op[p].kind = "transfer")
                   => pc[p] = "svc_inv2" /\ InvalidateCall(p, op[p].to)
             /\ (pc[p] # "svc_inv2" /\ pc'[p] = "svc_inv2")
                   => pc[p] = "svc_inv1" /\ InvalidateCall(p, op[p].user)
             /\ (SvcSucceeds(p) /\ op[p].kind = "deposit")
                   => tasks' = tasks (+) SetToBag({InvalidateTask(op[p].user)})
      ]_vars
    /\ [][\A u \in Users :
             CopiesIn(InvalidateTask(u), tasks') > CopiesIn(InvalidateTask(u), tasks)
             => \E p \in Procs : /\ SvcSucceeds(p) /\ Committed(p)
                                 /\ op[p].kind = "deposit" /\ op[p].user = u
      ]_vars
    /\ [](\A p \in Procs : pc[p] \in {"svc_inv1", "svc_inv2"} => Committed(p))
    /\ \A u \in Users :
          BagIn(InvalidateTask(u), tasks) ~> ~BagIn(InvalidateTask(u), tasks)

\* A Transfer has returned success after both of its invalidations, and a
\* Deposit has returned success with its invalidating goroutine still to run.
C14_Witness ==
    \E p \in Procs, q \in Procs :
        /\ pc[p] = "done" /\ op[p].kind = "transfer" /\ result[p].err = ErrNil
        /\ cacheErrs[p] = 0
        /\ pc[q] = "done" /\ op[q].kind = "deposit" /\ result[q].err = ErrNil
        /\ BagIn(InvalidateTask(op[q].user), tasks)

\* C15: the step in which a service mutation commits gives it the result nil;
\* from then on until the call returns, whatever the InvalidateBalance calls
\* do, the result and the committed tables stay as they are; and a detached
\* cache call changes neither a result nor the committed tables.
C15_CacheFailureNeverFailsWrite ==
    /\ [][\A p \in Procs :
             /\ (pc[p] = "commit" /\ pc'[p] = "repo_ret"
                    /\ (wallets' # wallets \/ transactions' # transactions))
                   => result'[p].err = ErrNil
             /\ (pc[p] \in {"repo_ret", "svc_inv1", "svc_inv2"} /\ pc'[p] # pc[p])
                   => /\ result'[p] = result[p]
                      /\ UNCHANGED storeVars
                      /\ pc'[p] \in {"svc_inv1", "svc_inv2", "done"}
      ]_vars
    /\ [][(tasks' # tasks /\ pc' = pc) => (result' = result /\ UNCHANGED storeVars)]_vars
    /\ [](\A p \in Procs : pc[p] \in {"svc_inv1", "svc_inv2"} => result[p].err = ErrNil)

\* A Transfer has committed and returned success although both of its
\* InvalidateBalance calls returned an error.
C15_Witness ==
    \E p \in Procs :
        /\ pc[p] = "done" /\ op[p].via = "svc" /\ op[p].kind = "transfer"
        /\ cacheErrs[p] = 2
        /\ result[p].err = ErrNil
        /\ Committed(p)
        /\ wallets[op[p].user] = bal0[op[p].user] - op[p].amount

\* C16: for Deposit, Withdraw and Transfer alike the acknowledgement does not
\* wait for InvalidateBalance: once the repository has returned nil, the next
\* step of the caller's thread is the return of success to the caller.
C16_AckNeverWaitsForInvalidate ==
    [][\A p \in Procs :
          (pc[p] = "repo_ret" /\ result[p].err = ErrNil /\ pc'[p] # pc[p])
          => pc'[p] = "done"
      ]_vars

----------------------------------------------------------------------------
(* Cache against store *)

\* No service call is in flight and no detached goroutine is left to run.
Quiescent == tasks = EmptyBag /\ \A p \in Procs : pc[p] \in {"idle", "done"}

\* The entry of u, when there is one, is the committed balance of u.
Fresh(u) == u \in DOMAIN cache => (u \in DOMAIN wallets /\ cache[u] = wallets[u])

\* C17: when nothing is in flight and no cache call has returned an error,
\* every entry of the cache equals the committed balance of its user.
C17_NoStaleEntry ==
    (Quiescent /\ \A w \in CacheCallers : cacheErrs[w] = 0)
        => \A u \in Users : Fresh(u)

\* C18: under fair scheduling and with TTLs that lapse, from some time on no
\* entry of the cache differs from the committed balance (the calls of a
\* behaviour are finitely many, so writes stop); and an entry is installed or
\* changed only by a SetBalance goroutine, which is consumed by it, and every
\* such goroutine is started by a GetBalance that has just read its balance
\* from the store.
C18_BoundedStaleness ==
    /\ <>[](\A u \in Users : Fresh(u))
    /\ [][\A u \in Users :
             (u \in DOMAIN cache' /\ (u \notin DOMAIN cache \/ cache'[u] # cache[u]))
             => /\ BagIn(SetTask(u, cache'[u]), tasks)
                /\ tasks' = tasks (-) SetToBag({SetTask(u, cache'[u])})
      ]_vars
    /\ [][\A t \in BagToSet(tasks') :
             (t.kind = "set" /\ CopiesIn(t, tasks') > CopiesIn(t, tasks))
             => /\ CopiesIn(t, tasks') = CopiesIn(t, tasks) + 1
                /\ \E p \in Procs :
                      /\ pc[p] = "svc_read" /\ pc'[p] = "done"
                      /\ op[p].user = t.user
                      /\ t.user \in DOMAIN wallets /\ t.balance = wallets[t.user]
      ]_vars

\* Nothing is in flight and the cache holds an entry that differs from the
\* committed balance; only its expiry is left to remove it.
C18_Witness ==
    /\ Quiescent
    /\ \E u \in Users : ~Fresh(u)

\* C19: when the cache read of GetBalance finds an entry and returns no error,
\* GetBalance returns that value in the same step, without reading the
\* repository and without starting a goroutine; the repository is read only
\* after a cache read that returned an error.
C19_CacheFirst ==
    [][\A p \in Procs :
          /\ (pc[p] = "svc_get" /\ pc'[p] # pc[p]
                 /\ op[p].user \in DOMAIN cache /\ cacheErrs'[p] = cacheErrs[p])
                => /\ pc'[p] = "done"
                   /\ result'[p] = Res(cache[op[p].user], ErrNil)
                   /\ tasks' = tasks
          /\ (pc[p] # "svc_read" /\ pc'[p] = "svc_read")
                => /\ pc[p] = "svc_get"
                   /\ op[p].user \notin DOMAIN cache \/ cacheErrs'[p] = cacheErrs[p] + 1
      ]_vars

\* A GetBalance has returned the balance that its cache read found, which the
\* other caller's GetBalance had read from the store after a miss.
C19_Witness ==
    \E p \in Procs, q \in Procs :
        /\ pc[p] = "done" /\ op[p].kind = "balance"
        /\ failedAt[p] = "none" /\ cacheErrs[p] = 0
        /\ result[p].err = ErrNil
        /\ op[p].user \in DOMAIN cache /\ result[p].val = cache[op[p].user]
        /\ pc[q] = "done" /\ op[q] = op[p] /\ failedAt[q] = "svc_get"
        /\ tasks = EmptyBag

\* C20: in the step in which GetBalance returns a balance it has read from
\* the store, the cache already holds that balance for the user.
C20_RepopulatedBeforeReturn ==
    [][\A p \in Procs :
          (pc[p] = "svc_read" /\ pc'[p] = "done" /\ result'[p].err = ErrNil)
          => /\ op[p].user \in DOMAIN cache'
             /\ cache'[op[p].user] = result'[p].val
      ]_vars

\* C21: a cache read of GetBalance that returns an error of any kind (miss,
\* Redis failure, empty userID) is followed by the read of the repository and
\* changes nothing; GetBalance then returns what the repository's GetBalance
\* returns, value or error; and the goroutine that stores the balance,
\* whether it succeeds or fails, does not touch the result.
C21_CacheNoHardDependency ==
    /\ [][\A p \in Procs :
             /\ (pc[p] = "svc_get" /\ pc'[p] # pc[p]
                    /\ (CacheGetBalance(op[p].user).err # ErrNil
                           \/ cacheErrs'[p] # cacheErrs[p]))
                   => pc'[p] = "svc_read" /\ UNCHANGED <<storeVars, cache>>
             /\ (pc[p] = "svc_read" /\ pc'[p] # pc[p])
                   => /\ pc'[p] = "done"
                      /\ result'[p] \in {RepoGetBalance(op[p].user), Res(0, ErrStore)}
      ]_vars
    /\ [][\A p \in Procs :
             (pc[p] = "done" /\ op[p].kind = "balance") => result'[p] = result[p]
      ]_vars

\* A GetBalance whose cache read failed with a Redis error has returned the
\* committed balance, and the SetBalance of its goroutine has failed as well.
C21_Witness ==
    \E p \in Procs :
        /\ pc[p] = "done" /\ op[p].kind = "balance"
        /\ failedAt[p] = "svc_get" /\ cacheErrs[p] = 1
        /\ result[p] = RepoGetBalance(op[p].user) /\ result[p].err = ErrNil
        /\ \A q \in Procs \ {p} : pc[q] = "idle"
        /\ tasks = EmptyBag /\ cacheErrs[Detached] = 1
        /\ cache = NoEntries

\* The detached goroutine t is a SetBalance of GetBalance and has completed
\* without a Redis error.
Populated(t) ==
    /\ t.kind = "set"
    /\ tasks' = tasks (-) SetToBag({t})
    /\ cacheErrs' = cacheErrs

\* C22: once the SetBalance goroutine of a GetBalance that missed has
\* completed, a GetBalance of the same user is a cache hit with the balance
\* that was read, whatever that balance is (0 included), and stays one until
\* the entry is invalidated, overwritten or lapses.
C22_RepeatReadFromCache ==
    [][\A t \in BagToSet(tasks) :
          Populated(t) => CacheGetBalance(t.user)' = Res(t.balance, ErrNil)]_vars

\* The same for the balances SetBalance accepts.
RepeatReadOfPositiveBalance ==
    [][\A t \in BagToSet(tasks) :
          (Populated(t) /\ t.balance > 0)
              => CacheGetBalance(t.user)' = Res(t.balance, ErrNil)]_vars

----------------------------------------------------------------------------
(* CacheRepositoryImpl called directly *)

InitCache ==
    /\ InitCallers
    /\ wallets = NoEntries
    /\ transactions = << >>
    /\ nextID = 1
    /\ script = << >>
    /\ bal0 = wallets

NextCache ==
    \/ \E p \in Procs :
          \/ CacheCall(p)
          \/ CacheGet(p)
          \/ CacheSet(p)
          \/ CacheInvalidate(p)
          \/ CacheFail(p)
          \/ Return(p)
    \/ Expire

CacheSpec == InitCache /\ [][NextCache]_vars

\* The call of p returns, Redis having answered.
CacheReturns(p, kind) ==
    /\ pc[p] = "cache_call" /\ pc'[p] = "done"
    /\ op[p].kind = kind
    /\ cacheErrs' = cacheErrs

\* C23: SetBalance with a non-empty userID accepts every balance >= 0, after
\* which GetBalance of the user is a hit with that balance (0 included), and
\* rejects a negative balance with ErrInvalidAmount.
C23_ZeroBalanceCacheable ==
    [][\A p \in Procs :
          (CacheReturns(p, "set") /\ op[p].user # "")
              => IF op[p].amount >= 0
                 THEN /\ result'[p].err = ErrNil
                      /\ CacheGetBalance(op[p].user)' = Res(op[p].amount, ErrNil)
                 ELSE result'[p].err = ErrInvalidAmount /\ cache' = cache]_vars

\* What SetBalance does: it accepts the balances > 0 and rejects the others.
SetBalanceAcceptsPositive ==
    [][\A p \in Procs :
          (CacheReturns(p, "set") /\ op[p].user # "")
              => IF op[p].amount > 0
                 THEN /\ result'[p].err = ErrNil
                      /\ CacheGetBalance(op[p].user)' = Res(op[p].amount, ErrNil)
                 ELSE result'[p].err = ErrInvalidAmount /\ cache' = cache]_vars

\* GetBalance of every user but u gives after the step what it gave before.
OthersKept(u) ==
    \A v \in Users \ {u} : CacheGetBalance(v)' = CacheGetBalance(v)

\* C24: the cache is a map from users to balances with expiry.  GetBalance
\* changes nothing and returns the entry, or redis.Nil when there is none; a
\* SetBalance that returns nil makes GetBalance of its user return its
\* balance, whatever entry there was, and one that returns an error changes
\* nothing; InvalidateBalance returns nil and leaves its user without entry,
\* whether or not there was one, and doing it again changes nothing; neither
\* touches another user's entry; and outside these calls an entry only
\* disappears (its TTL lapses).
C24_CacheIsMap ==
    [][/\ \A p \in Procs :
             /\ (CacheReturns(p, "get") /\ op[p].user # "")
                   => /\ cache' = cache
                      /\ result'[p] = IF op[p].user \in DOMAIN cache
                                       THEN Res(cache[op[p].user], ErrNil)
                                       ELSE Res(0, ErrRedisNil)
             /\ (CacheReturns(p, "set") /\ result'[p].err = ErrNil)
                   => /\ CacheGetBalance(op[p].user)' = Res(op[p].amount, ErrNil)
                      /\ OthersKept(op[p].user)
             /\ (CacheReturns(p, "set") /\ result'[p].err # ErrNil)
                   => cache' = cache
             /\ (CacheReturns(p, "invalidate") /\ op[p].user # "")
                   => /\ result'[p].err = ErrNil
                      /\ CacheGetBalance(op[p].user)' = Res(0, ErrRedisNil)
                      /\ CacheInvalidateBalance(op[p].user)' = cache'
                      /\ OthersKept(op[p].user)
       /\ cacheErrs' # cacheErrs => cache' = cache
       /\ pc' = pc
             => \A u \in Users :
                   CacheGetBalance(u)' \in {CacheGetBalance(u), Res(0, ErrRedisNil)}
      ]_vars

\* GetBalance returns the balance of the second SetBalance of its user, the
\* other user's entry having been invalidated meanwhile.
C24_Witness ==
    \E p, q \in Procs :
        /\ pc[p] = "done" /\ op[p] = Call("cache", "get", "user1", NULL, 0)
        /\ result[p] = Res(2, ErrNil)
        /\ pc[q] = "done" /\ op[q] = Call("cache", "invalidate", "user2", NULL, 0)
        /\ result[q] = Res(0, ErrNil)
        /\ cache = Put(NoEntries, "user1", 2)
        /\ cacheErrs[p] = 1

\* C25: GetBalance, SetBalance and InvalidateBalance called with an empty
\* userID return ErrInvalidUserID (GetBalance with balance 0) and make no
\* Redis command: the cache is as it was and no Redis error can occur.
C25_EmptyUserRejected ==
    [][\A p \in Procs :
          (pc[p] = "cache_call" /\ pc'[p] # pc[p] /\ op[p].user = "")
              => /\ pc'[p] = "done"
                 /\ result'[p] = Res(0, ErrInvalidUserID)
                 /\ UNCHANGED cacheVars]_vars

\* Two calls with an empty userID have returned while the cache holds entries.
C25_Witness ==
    \E p, q \in Procs :
        /\ pc[p] = "done" /\ op[p] = Call("cache", "get", "", NULL, 0)
        /\ pc[q] = "done" /\ op[q] = Call("cache", "set", "", NULL, 1)
        /\ result[p] = Res(0, ErrInvalidUserID)
        /\ result[q] = Res(0, ErrInvalidUserID)
        /\ DOMAIN cache = Users

----------------------------------------------------------------------------
(* Calls with any arguments, of the repository and of the service *)

\* One call per caller, of the service or of the repository directly, on a
\* filled store.
NextEntry ==
    \/ NextSvc
    \/ \E p \in Procs : RepoCall(p)

EntrySpec == InitSvc /\ [][NextEntry]_vars

\* The identifiers / the amount of a Deposit, Withdraw or Transfer are not
\* acceptable.
BadUser(c) ==
    c.user = "" \/ (c.kind = "transfer" /\ (c.to = "" \/ c.to = c.user))
BadAmount(c) == c.amount <= 0
IsWrite(c) == c.kind \in {"deposit", "withdrawal", "transfer"}

\* The errors the claim allows for the call c.
ValidationErrs(c) ==
    (IF BadUser(c) THEN {ErrInvalidUserID} ELSE {})
        \cup (IF BadAmount(c) THEN {ErrInvalidAmount} ELSE {})

\* C26: a Deposit, Withdraw or Transfer with an unacceptable argument, called
\* on the repository or through the service, returns ErrInvalidUserID for an
\* empty identifier (for Transfer also for equal ones) and ErrInvalidAmount
\* for an amount <= 0 (one of the two when both apply); no transaction is
\* begun and no lock taken, and no step of the call changes balances,
\* transaction log, sequence, locks, cache or goroutines.
C26_ValidationBeforeStore ==
    /\ [](\A p \in Procs :
            (IsWrite(op[p]) /\ ValidationErrs(op[p]) # {})
                => /\ pc[p] \in {"repo_ret", "done"}
                   /\ result[p].err \in ValidationErrs(op[p])
                   /\ txWrite[p] = NoEntries /\ txRec[p] = << >>
                   /\ \A u \in Users : lockHolder[u] # p)
    /\ [][\A p \in Procs :
             (pc'[p] # pc[p] /\ IsWrite(op'[p]) /\ ValidationErrs(op'[p]) # {})
                 => UNCHANGED <<storeVars, nextID, txVars, cacheVars>>]_vars

\* A transfer to oneself and a deposit of nothing have been refused while the
\* store holds balances.
C26_Witness ==
    \E p, q \in Procs :
        /\ pc[p] = "done" /\ op[p] = Call("repo", "transfer", "user1", "user1", 1)
        /\ result[p].err = ErrInvalidUserID
        /\ pc[q] = "done" /\ op[q] = Call("svc", "deposit", "user1", NULL, 0)
        /\ result[q].err = ErrInvalidAmount
        /\ "user1" \in DOMAIN wallets /\ wallets = bal0

----------------------------------------------------------------------------
(* GetTransactionHistory on a transactions table that does not change *)

\* created_at is the time.Now() of the caller; two records can carry the same
\* value.
Times == {1, 2}

\* A transactions row as GetTransactionHistory scans it.
HistoryRow(id, c, t) ==
    [id |-> id,
     from_user_id |-> c.user,
     to_user_id |-> IF c.kind = "transfer" THEN c.to ELSE NULL,
     amount |-> c.amount,
     type |-> c.kind,
     created_at |-> t]

\* The calls whose records fill the table.
HistoryWrites ==
    {Call("repo", "deposit", u, NULL, 1) : u \in Users}
    \cup {Call("repo", "withdrawal", "user1", NULL, 1),
          Call("repo", "transfer", "user1", "user2", 1)}

\* The calls cs[i], cs[i+1], ... made one after the other on w: the wallets
\* table they leave, and whether all of them succeeded.
RECURSIVE AfterCalls(_, _, _)
AfterCalls(w, cs, i) ==
    IF i > Len(cs) THEN [w |-> w, ok |-> TRUE]
    ELSE IF SeqErr(w, cs[i]) # ErrNil THEN [w |-> w, ok |-> FALSE]
    ELSE AfterCalls(SeqWallets(w, cs[i]), cs, i + 1)

\* Sequences of at most MaxRows successful calls.
HistoryLogs ==
    {cs \in UNION {[1..n -> HistoryWrites] : n \in 0..MaxRows} :
        AfterCalls(NoEntries, cs, 1).ok}

\* ORDER BY created_at DESC: the orders in which the database may return the
\* rows of userID; rows with equal created_at come in any order, and not
\* necessarily in the same order in two executions of the query.
HistoryOrders(userID) ==
    LET S == HistoryRows(userID)
        n == Cardinality(S)
    IN  {f \in [1..n -> S] :
            /\ \A i, j \in 1..n : f[i] = f[j] => i = j
            /\ \A i, j \in 1..n : i < j => f[i].created_at >= f[j].created_at}

\* LIMIT $2 OFFSET $3
HistoryPage(ord, limit, offset) ==
    SubSeq(ord, offset + 1, IF offset + limit < Len(ord) THEN offset + limit ELSE Len(ord))

\* The argument checks of the repository's GetTransactionHistory.
RepoHistoryErr(userID, limit) ==
    IF userID = "" THEN ErrInvalidUserID
    ELSE IF limit <= 0 THEN ErrInvalidLimit
    ELSE ErrNil

DefaultLimit == 50
MaxLimit == 100

\* Variant of SvcLimit: the requested limit is passed on as it is.
SvcLimitUnchecked(limit) == limit

\* WalletService.GetTransactionHistory: the limit it passes to the repository.
SvcLimit(limit) ==
    IF limit <= 0 \/ limit > MaxLimit THEN DefaultLimit ELSE limit

HistoryLimits == {-1, 0, 1, 2, DefaultLimit, MaxLimit, MaxLimit + 1}

HistoryCall(via, userID, limit, passed, offset) ==
    [via |-> via, kind |-> "history", user |-> userID, to |-> NULL, amount |-> 0,
     limit |-> limit, passed |-> passed, offset |-> offset]

\* GetTransactionHistory of the repository, called directly or by
\* WalletService.GetTransactionHistory; the client appends the page it gets
\* to the records it has.
HistoryFetch(p, via, userID, limit, offset) ==
    LET passed == IF via = "svc" THEN SvcLimit(limit) ELSE limit
        err == RepoHistoryErr(userID, passed)
    IN  /\ op' = [op EXCEPT ![p] = HistoryCall(via, userID, limit, passed, offset)]
        /\ \/ /\ err # ErrNil
              /\ result' = [result EXCEPT ![p] = Res(<< >>, err)]
              /\ UNCHANGED results
           \/ /\ err = ErrNil
              /\ result' = [result EXCEPT ![p] = Res(<< >>, ErrStore)]
              /\ UNCHANGED results
           \/ /\ err = ErrNil
              /\ \E ord \in HistoryOrders(userID) :
                    /\ result' = [result EXCEPT ![p] =
                                     Res(HistoryPage(ord, passed, offset), ErrNil)]
                    /\ results' = results \o HistoryPage(ord, passed, offset)
        /\ pc' = [pc EXCEPT ![p] = "done"]
        /\ callsMade' = callsMade + 1
        /\ UNCHANGED <<storeVars, nextID, txVars, failedAt, cacheVars, script, bal0>>

\* The client asks for the first page.
HistoryFirstPage(p) ==
    /\ pc[p] = "idle"
    /\ callsMade = 0
    /\ \E via \in {"repo", "svc"}, u \in UserIDs, l \in HistoryLimits :
          HistoryFetch(p, via, u, l, 0)

\* The last page was full: the client asks for the next one.
HistoryNextPage(p) ==
    /\ pc[p] = "done"
    /\ result[p].err = ErrNil
    /\ Len(result[p].val) = op[p].passed
    /\ HistoryFetch(p, op[p].via, op[p].user, op[p].limit, op[p].offset + op[p].passed)

InitHistory ==
    /\ InitCallers
    /\ \E cs \in HistoryLogs, ts \in UNION {[1..n -> Times] : n \in 0..MaxRows} :
          /\ Len(ts) = Len(cs)
          /\ transactions = [i \in 1..Len(cs) |-> HistoryRow(i, cs[i], ts[i])]
          /\ wallets = AfterCalls(NoEntries, cs, 1).w
    /\ nextID = Len(transactions) + 1
    /\ script = << >>
    /\ bal0 = wallets

NextHistory ==
    \E p \in Procs :
        \/ HistoryFirstPage(p)
        \/ HistoryNextPage(p)

HistorySpec == InitHistory /\ [][NextHistory]_vars

\* The client has its last page: an error, or a page that is not full.
LastPage(p) ==
    /\ pc[p] = "done"
    /\ result[p].err # ErrNil \/ Len(result[p].val) < op[p].passed

\* What the claim C27 asks of the pages the client of p has got so far.
PagesConsistent(p) ==
    LET page == result[p].val
        rows == HistoryRows(op[p].user)
        left == Cardinality(rows) - op[p].offset
    IN  /\ \A i \in DOMAIN page : page[i] \in rows
        /\ \A i, j \in DOMAIN page : i < j => page[i].created_at >= page[j].created_at
        /\ Len(page) = IF left <= 0 THEN 0
                        ELSE IF left < op[p].passed THEN left ELSE op[p].passed
        /\ \A i, j \in DOMAIN results : results[i] = results[j] => i = j
        /\ LastPage(p) => {results[i] : i \in DOMAIN results} = rows

\* C27: GetTransactionHistory returns rows in which the user is sender or
\* receiver, ordered by created_at descending, `limit` of them after the
\* first `offset`; and the pages at offsets 0, limit, 2*limit, ... of a table
\* that does not change, records with equal created_at included, repeat no
\* record and together hold every record of the user.
C27_PagesPartitionHistory ==
    \A p \in Procs :
        (pc[p] = "done" /\ result[p].err = ErrNil) => PagesConsistent(p)

\* No two records of the table carry the same created_at.
DistinctTimes ==
    \A i, j \in DOMAIN transactions :
        transactions[i].created_at = transactions[j].created_at => i = j

\* The same when all created_at differ.
PagesPartitionDistinctTimes ==
    \A p \in Procs :
        (pc[p] = "done" /\ result[p].err = ErrNil /\ DistinctTimes)
            => PagesConsistent(p)

\* The call of p is a GetTransactionHistory of WalletService.
SvcHistory(p) == op[p].kind = "history" /\ op[p].via = "svc"

\* C28 as stated: the limit WalletService passes to the repository lies in
\* 1..100, is the requested limit when that lies in 1..100, 50 when the
\* requested limit is <= 0 and 100 when it exceeds 100; the repository never
\* answers ErrInvalidLimit.
C28_LimitClampedTo100 ==
    \A p \in Procs :
        SvcHistory(p)
            => /\ op[p].passed \in 1..MaxLimit
               /\ op[p].limit \in 1..MaxLimit => op[p].passed = op[p].limit
               /\ op[p].limit <= 0 => op[p].passed = DefaultLimit
               /\ op[p].limit > MaxLimit => op[p].passed = MaxLimit
               /\ result[p].err # ErrInvalidLimit

\* C28, amended: the limit WalletService passes to the repository lies in
\* 1..100, is the requested limit when that lies in 1..100, and is the
\* default 50 both when the requested limit is <= 0 and when it exceeds 100;
\* the repository never answers ErrInvalidLimit.
C28_LimitInRangeOrDefault ==
    \A p \in Procs :
        SvcHistory(p)
            => /\ op[p].passed \in 1..MaxLimit
               /\ op[p].limit \in 1..MaxLimit => op[p].passed = op[p].limit
               /\ op[p].limit <= 0 => op[p].passed = DefaultLimit
               /\ op[p].limit > MaxLimit => op[p].passed = DefaultLimit
               /\ result[p].err # ErrInvalidLimit

\* A request for more than 100 records has been answered with the records
\* of the user, the repository having been asked for 50.
C28_Witness ==
    \E p \in Procs :
        /\ SvcHistory(p) /\ pc[p] = "done"
        /\ op[p].limit = MaxLimit + 1 /\ op[p].passed = DefaultLimit
        /\ result[p].err = ErrNil /\ Len(result[p].val) = MaxRows

----------------------------------------------------------------------------
(* The records of the transactions table *)

\* A record as Deposit, Withdraw and Transfer write them: to_user_id is set
\* exactly in a transfer, whose two users differ; amount > 0.
WellFormed(t) ==
    /\ t.type \in {"deposit", "withdrawal", "transfer"}
    /\ t.amount > 0
    /\ t.from_user_id \in Users
    /\ t.to_user_id # NULL <=> t.type = "transfer"
    /\ t.type = "transfer" => (t.to_user_id \in Users /\ t.to_user_id # t.from_user_id)

\* C29: every record of the transactions table has to_user_id set if and only
\* if its type is transfer (deposit and withdrawal records carry
\* from_user_id alone), an amount > 0, one of the three types, and, in a
\* transfer, two different non-empty users.
C29_RecordsWellFormed ==
    \A i \in DOMAIN transactions : WellFormed(transactions[i])

\* The table holds a record of each type.
C29_Witness ==
    \A k \in {"deposit", "withdrawal", "transfer"} :
        \E i \in DOMAIN transactions : transactions[i].type = k

----------------------------------------------------------------------------
(* Wallet lifecycle *)

\* The user has a row in wallets.
Active(u) == u \in DOMAIN wallets

\* The step commits the transaction of p.
Commits(p) ==
    pc[p] = "commit" /\ pc'[p] # "commit" /\ transactions' # transactions

\* A wallet row, once there, stays; and a row appears only when a Deposit to
\* its user commits, with the deposit's amount as balance, or when a Transfer
\* to its user commits.
RowsOnlyAppear ==
    \A u \in Users :
        /\ Active(u) => Active(u)'
        /\ (~Active(u) /\ Active(u)')
              => \E p \in Procs :
                    /\ Commits(p)
                    /\ \/ /\ op[p].kind = "deposit" /\ op[p].user = u
                          /\ wallets'[u] = op[p].amount
                       \/ op[p].kind = "transfer" /\ op[p].to = u

\* C30: a user's wallet becomes Active when the first Deposit to the user
\* commits (with the deposit's amount as balance) and when the first Transfer
\* to the user commits; it then stays Active; and nothing else (Withdraw, a
\* failed call, GetBalance) makes a wallet Active.
C30_WalletLifecycle ==
    [][/\ RowsOnlyAppear
       /\ \A p \in Procs :
             Commits(p)
                 => /\ op[p].kind = "deposit" => Active(op[p].user)'
                    /\ op[p].kind = "transfer" => Active(op[p].to)'
      ]_vars

\* The same without the credit of a Transfer.
LifecycleByDeposit ==
    [][/\ RowsOnlyAppear
       /\ \A p \in Procs :
             (Commits(p) /\ op[p].kind = "deposit") => Active(op[p].user)'
      ]_vars

----------------------------------------------------------------------------
(* WalletHandler (HTTP) *)

StatusOK == 200
StatusBadRequest == 400
StatusInternalServerError == 500

ErrBind == "binding failed"

\* The requests POST /wallets/:userID/deposit, /withdraw and /transfer and
\* GET /wallets/:userID/balance; the path parameter is never empty.
HttpRequests ==
    {Call("http", k, u, NULL, a) : k \in {"deposit", "withdrawal"}, u \in Users, a \in Amounts}
    \cup {Call("http", "transfer", u, t, a) : u \in Users, t \in UserIDs, a \in Amounts}
    \cup {Call("http", "balance", u, NULL, 0) : u \in Users}

\* c.ShouldBindJSON: `binding:"required,gt=0"` on amount and
\* `binding:"required"` on receiver_id.
BindFails(c) ==
    /\ c.kind # "balance"
    /\ c.amount <= 0 \/ (c.kind = "transfer" /\ c.to = "")

\* The response to a request whose service call returned.
Response(val, err, status) == [val |-> val, err |-> err, status |-> status]

\* The status the handler of `kind` answers with when the service returned err.
HttpStatus(kind, err) ==
    IF err = ErrNil THEN StatusOK
    ELSE IF kind \in {"withdrawal", "transfer"} /\ err = ErrInsufficientBalance
         THEN StatusBadRequest
    ELSE StatusInternalServerError

\* A handler is entered: the body is bound and the service is called.
HttpRequest(p) ==
    /\ pc[p] = "idle"
    /\ \E c \in HttpRequests :
          IF BindFails(c)
          THEN /\ op' = [op EXCEPT ![p] = c]
               /\ result' = [result EXCEPT ![p] = Response(0, ErrBind, StatusBadRequest)]
               /\ pc' = [pc EXCEPT ![p] = "responded"]
               /\ UNCHANGED <<failedAt, txVars>>
          ELSE SvcEnter(p, c)
    /\ UNCHANGED <<storeVars, nextID, cacheVars, clientVars, callsMade>>

\* The service has returned: the handler writes the response.
HttpRespond(p) ==
    /\ pc[p] = "done" /\ op[p].via = "http"
    /\ result' = [result EXCEPT ![p] =
                     Response(@.val, @.err, HttpStatus(op[p].kind, @.err))]
    /\ pc' = [pc EXCEPT ![p] = "responded"]
    /\ UNCHANGED <<storeVars, nextID, txVars, op, failedAt, cacheVars,
                   clientVars, callsMade>>

\* One request per caller, on a filled store and an empty cache.
NextHttp ==
    \/ \E p \in Procs :
          \/ HttpRequest(p)
          \/ HttpRespond(p)
          \/ DepositUpsert(p)
          \/ SelectForUpdate(p)
          \/ DebitUpdate(p)
          \/ CreditUpdate(p)
          \/ InsertTransaction(p)
          \/ Commit(p)
          \/ StmtFail(p)
          \/ DeadlockAbort(p)
          \/ SvcAfterRepo(p)
          \/ SvcInvalidate(p)
          \/ SvcInvalidateFail(p)
          \/ SvcCacheGet(p)
          \/ SvcCacheGetFail(p)
          \/ SvcRepoGetBalance(p)
          \/ SvcRepoGetBalanceFail(p)
    \/ TaskRun
    \/ TaskFail
    \/ Expire

HttpSpec == InitSvc /\ [][NextHttp]_vars

\* The request of p is a deposit, withdraw or transfer and has been answered.
Answered(p) ==
    pc[p] = "responded" /\ op[p].kind \in {"deposit", "withdrawal", "transfer"}

ClientErrs == {ErrInvalidAmount, ErrInvalidUserID, ErrUserNotFound, ErrInsufficientBalance}

\* C31: a deposit, withdraw or transfer request for which the service
\* returned ErrInvalidAmount, ErrInvalidUserID, ErrUserNotFound or
\* ErrInsufficientBalance is answered with a 4xx status, and a 5xx status is
\* given only for an error of the store (a transfer to oneself and a
\* withdraw from a user without wallet are answered with 4xx).
C31_ClientErrorsAre4xx ==
    \A p \in Procs :
        Answered(p)
            => /\ result[p].err \in ClientErrs => result[p].status \in 400..499
               /\ result[p].status \in 500..599 => result[p].err \in {ErrStore, ErrDeadlock}

\* What the handlers do: 200 on success, 400 for a body that does not bind
\* and for ErrInsufficientBalance of withdraw and transfer, 500 otherwise.
StatusAsHandled ==
    \A p \in Procs :
        Answered(p)
            => result[p].status =
                  IF result[p].err = ErrNil THEN StatusOK
                  ELSE IF result[p].err \in {ErrBind, ErrInsufficientBalance}
                       THEN StatusBadRequest
                  ELSE StatusInternalServerError

----------------------------------------------------------------------------
(* Conservation of money *)

\* The sum of the balances of the wallets table w.
RECURSIVE SumOver(_, _)
SumOver(w, S) ==
    IF S = {} THEN 0
    ELSE LET u == CHOOSE x \in S : TRUE IN w[u] + SumOver(w, S \ {u})

TotalBalance(w) == SumOver(w, DOMAIN w)

\* The sum of the amounts of the records of the given type.
RECURSIVE TotalOfType(_, _)
TotalOfType(log, type) ==
    IF log = << >> THEN 0
    ELSE (IF Head(log).type = type THEN Head(log).amount ELSE 0)
             + TotalOfType(Tail(log), type)

\* C32: in every committed state the sum of all balances is the sum of the
\* deposited amounts minus the sum of the withdrawn amounts, so that a
\* Transfer, whoever its receiver is, leaves the sum of all balances as it was.
C32_MoneyConserved ==
    TotalBalance(wallets) =
        TotalOfType(transactions, "deposit") - TotalOfType(transactions, "withdrawal")

\* The same step by step, for the transfers whose credit found the
\* receiver's row.
ConservedWhenCredited ==
    [][/\ \A p \in Procs :
             Commits(p)
                 => TotalBalance(wallets') - TotalBalance(wallets) =
                       IF op[p].kind = "deposit" THEN op[p].amount
                       ELSE IF op[p].kind = "withdrawal" THEN 0 - op[p].amount
                       ELSE IF op[p].to \in DOMAIN txWrite[p] THEN 0
                       ELSE 0 - op[p].amount
       /\ transactions' = transactions => wallets' = wallets
      ]_vars

----------------------------------------------------------------------------
(* One caller that makes service calls one after the other *)

SessionCalls ==
    {Call("svc", k, u, NULL, 1) : k \in {"deposit", "withdrawal"}, u \in Users}
    \cup {Call("svc", "transfer", u, t, 1) : u \in Users, t \in Users}
    \cup {Call("svc", "balance", u, NULL, 0) : u \in Users}

SessionCall ==
    /\ pc[Client] = "idle"
    /\ callsMade < MaxCalls
    /\ \E c \in SessionCalls : SvcEnter(Client, c)
    /\ callsMade' = callsMade + 1
    /\ UNCHANGED <<storeVars, nextID, cacheVars, clientVars>>

\* The users that the records in `written` do not name yet and that the
\* call c touches.
RECURSIVE NewlyWritten(_, _, _)
NewlyWritten(written, c, i) ==
    IF i > Len(UserOrder) THEN << >>
    ELSE (IF /\ UserOrder[i] \in {c.user, c.to}
             /\ \A j \in DOMAIN written : written[j] # UserOrder[i]
          THEN <<UserOrder[i]>> ELSE << >>) \o NewlyWritten(written, c, i + 1)

\* The caller has its result; of a Deposit, Withdraw or Transfer that
\* succeeded it remembers the users.
SessionReturn ==
    /\ pc[Client] = "done"
    /\ results' = IF op[Client].kind # "balance" /\ result[Client].err = ErrNil
                   THEN results \o NewlyWritten(results, op[Client], 1)
                   ELSE results
    /\ pc' = [pc EXCEPT ![Client] = "idle"]
    /\ op' = [op EXCEPT ![Client] = NoCall]
    /\ result' = [result EXCEPT ![Client] = Res(0, ErrNil)]
    /\ failedAt' = [failedAt EXCEPT ![Client] = "none"]
    /\ UNCHANGED <<storeVars, nextID, txVars, cacheVars, script, bal0, callsMade>>

NextSession ==
    \/ SessionCall
    \/ DepositUpsert(Client)
    \/ SelectForUpdate(Client)
    \/ DebitUpdate(Client)
    \/ CreditUpdate(Client)
    \/ InsertTransaction(Client)
    \/ Commit(Client)
    \/ StmtFail(Client)
    \/ SvcAfterRepo(Client)
    \/ SvcInvalidate(Client)
    \/ SvcInvalidateFail(Client)
    \/ SvcCacheGet(Client)
    \/ SvcCacheGetFail(Client)
    \/ SvcRepoGetBalance(Client)
    \/ SvcRepoGetBalanceFail(Client)
    \/ TaskRun
    \/ TaskFail
    \/ Expire
    \/ SessionReturn

SessionSpec == InitSvc /\ [][NextSession]_vars

\* The caller has got success for a Deposit, Withdraw or Transfer that
\* touches u.
WroteTo(u) == \E i \in DOMAIN results : results[i] = u

\* C33: when a caller that has got success for a Deposit, Withdraw or
\* Transfer touching a user then calls GetBalance for that user, while nobody
\* else calls the service and no cache call has failed, GetBalance returns the
\* balance that is committed in the store.
C33_ReadYourWrites ==
    [][(/\ pc[Client] \in {"svc_get", "svc_read"} /\ pc'[Client] = "done"
        /\ WroteTo(op[Client].user)
        /\ \A w \in CacheCallers : cacheErrs'[w] = 0
        /\ result'[Client].err = ErrNil)
          => result'[Client].val = wallets[op[Client].user]]_vars

\* The same for the reads that miss: they return the committed balance.
MissReadsCommitted ==
    [][(/\ pc[Client] = "svc_read" /\ pc'[Client] = "done"
        /\ result'[Client].err = ErrNil)
          => result'[Client].val = wallets[op[Client].user]]_vars

----------------------------------------------------------------------------
(* Service calls whose repository call fails *)

\* C34: when the repository call of a Deposit, Withdraw or Transfer of the
\* service returns an error, of whatever kind, the service returns that same
\* error; no step of the call invalidates or sets an entry or starts a
\* goroutine that would, and the cache is as it was.
C34_StoreErrorLeavesCache ==
    /\ [][\A p \in Procs :
             (/\ op'[p].kind \in {"deposit", "withdrawal", "transfer"}
              /\ pc'[p] # pc[p]
              /\ result'[p].err # ErrNil)
                 => /\ pc'[p] \in {"repo_ret", "done"}
                    /\ UNCHANGED cacheVars
                    /\ pc[p] = "repo_ret" => result'[p] = result[p]]_vars
    /\ [](\A p \in Procs :
             pc[p] \in {"svc_inv1", "svc_inv2"} => result[p].err = ErrNil)

\* A Transfer of the service has returned the repository's ErrUserNotFound
\* while the cache holds the entry that a GetBalance installed.
C34_Witness ==
    \E p, q \in Procs :
        /\ pc[p] = "done" /\ op[p].kind = "transfer"
        /\ result[p].err = ErrUserNotFound
        /\ pc[q] = "done" /\ op[q].kind = "balance"
        /\ cache # NoEntries /\ tasks = EmptyBag

----------------------------------------------------------------------------
(* Users without a wallet row *)

\* C35: a Withdraw or Transfer whose user (sender) has no wallet row when the
\* SELECT ... FOR UPDATE runs returns ErrUserNotFound and is rolled back: the
\* committed wallets (the sender's absence and the receiver's balance
\* included) and the transaction log are unchanged, and the call holds no
\* lock and no uncommitted write afterwards.  The repository's GetBalance
\* returns ErrUserNotFound for a user without a row and ErrInvalidUserID for
\* the empty user id, and changes nothing in the store.
C35_NoWalletNoEffect ==
    /\ [][\A p \in Procs :
             (/\ pc[p] = "select" /\ pc'[p] # "select"
              /\ op[p].user \notin DOMAIN wallets)
                 => /\ result'[p].err \in {ErrUserNotFound, ErrStore}
                    /\ result'[p].val = 0
                    /\ pc'[p] = RetPc(p)
                    /\ UNCHANGED storeVars
                    /\ lockHolder' = Released(p)
                    /\ txWrite'[p] = NoEntries /\ txRec'[p] = << >>]_vars
    /\ [][\A p \in Procs :
             (/\ pc[p] = "idle" /\ pc'[p] = "done"
              /\ op'[p].via = "repo" /\ op'[p].kind = "balance")
                 => /\ UNCHANGED storeVars
                    /\ op'[p].user = ""
                          => result'[p] = Res(0, ErrInvalidUserID)
                    /\ op'[p].user \in Users \ DOMAIN wallets
                          => result'[p] = Res(0, ErrUserNotFound)]_vars

\* A Transfer from a user without a wallet to a user with one has returned
\* ErrUserNotFound, a GetBalance of the sender has returned ErrUserNotFound,
\* and the store holds only what the receiver's Deposit committed.
C35_Witness ==
    \E p, q \in Procs :
        /\ pc[p] = "done" /\ op[p].kind = "transfer"
        /\ result[p].err = ErrUserNotFound /\ failedAt[p] = "select"
        /\ op[p].to \in DOMAIN wallets
        /\ op[p].user \notin DOMAIN wallets
        /\ pc[q] = "done" /\ op[q].kind = "balance"
        /\ op[q].user = op[p].user
        /\ result[q] = Res(0, ErrUserNotFound)
        /\ Len(transactions) = 1
        /\ \A r \in Procs : txWrite[r] = NoEntries

----------------------------------------------------------------------------
(* When Withdraw and Transfer succeed *)

\* p is in the transaction of a Withdraw or Transfer and returns in this step.
DebitReturns(p) ==
    /\ op[p].kind \in {"withdrawal", "transfer"}
    /\ InTx(p)
    /\ pc'[p] = RetPc(p)

\* C36: a Withdraw or Transfer with valid arguments passes its SELECT ... FOR
\* UPDATE exactly when the user's (sender's) row exists with a balance >= the
\* amount: with such a row the call is refused neither as ErrUserNotFound nor
\* as ErrInsufficientBalance, and it returns without error only by committing
\* with such a row; the commit lowers that committed balance by exactly the
\* amount.
C36_DebitSucceedsIffCovered ==
    [][\A p \in Procs :
          LET u == op[p].user
              covered == u \in DOMAIN wallets /\ wallets[u] >= op[p].amount
          IN  DebitReturns(p) =>
                /\ result'[p].err = ErrNil
                      => /\ pc[p] = "commit"
                         /\ covered
                         /\ wallets'[u] = wallets[u] - op[p].amount
                /\ result'[p].err \in {ErrUserNotFound, ErrInsufficientBalance}
                      => pc[p] = "select" /\ ~covered
                /\ (pc[p] = "select" /\ ~covered)
                      => result'[p].err \in
                            {ErrUserNotFound, ErrInsufficientBalance, ErrStore}
      ]_vars

\* A Withdraw of the user's whole balance has succeeded and left the balance 0.
C36_Witness ==
    \E p \in Procs :
        /\ pc[p] = "done" /\ op[p].kind = "withdrawal"
        /\ op[p].amount = 2
        /\ result[p].err = ErrNil
        /\ wallets = [u \in {op[p].user} |-> 0]
        /\ Len(transactions) = 2
        /\ transactions[2].type = "withdrawal"

----------------------------------------------------------------------------
(* Service calls next to a user they do not name *)

\* A user with a wallet and a cache entry whom no call names.
Bystander == "user3"

\* WalletService.GetTransactionHistory on the first page: the limit is
\* defaulted, the repository checks its arguments and returns the page of the
\* user's rows.  The records of this specification carry no created_at, so
\* the rows come in any order.
SvcGetTransactionHistory(p) ==
    /\ pc[p] = "idle"
    /\ \E u \in UserIDs, l \in {0, 1, MaxLimit} :
          LET passed == SvcLimit(l)
              err == RepoHistoryErr(u, passed)
              S == HistoryRows(u)
              n == Cardinality(S)
          IN  /\ op' = [op EXCEPT ![p] = Call("svc", "history", u, NULL, 0)]
              /\ \/ /\ err # ErrNil
                    /\ result' = [result EXCEPT ![p] = Res(<< >>, err)]
                 \/ /\ err = ErrNil
                    /\ result' = [result EXCEPT ![p] = Res(<< >>, ErrStore)]
                 \/ /\ err = ErrNil
                    /\ \E ord \in {f \in [1..n -> S] :
                                       \A i, j \in 1..n : f[i] = f[j] => i = j} :
                          result' = [result EXCEPT ![p] =
                                        Res(HistoryPage(ord, passed, 0), ErrNil)]
    /\ pc' = [pc EXCEPT ![p] = "done"]
    /\ failedAt' = [failedAt EXCEPT ![p] = "none"]
    /\ UNCHANGED <<storeVars, nextID, txVars, cacheVars, clientVars, callsMade>>

\* One service call per caller on a filled store in which the bystander has a
\* wallet, a deposit record and a cache entry.
InitFrame ==
    /\ \E w \in SeedStores :
          /\ wallets = Put(w, Bystander, 2)
          /\ transactions = SeedLog(w, 1, 1) \o
                <<NewTransaction(Len(SeedLog(w, 1, 1)) + 1,
                                 Call("repo", "deposit", Bystander, NULL, 2))>>
    /\ nextID = Len(transactions) + 1
    /\ script = << >>
    /\ bal0 = wallets
    /\ lockHolder = [u \in Users |-> Free]
    /\ pc = [p \in Procs |-> "idle"]
    /\ op = [p \in Procs |-> NoCall]
    /\ txWrite = [p \in Procs |-> NoEntries]
    /\ txRec = [p \in Procs |-> << >>]
    /\ result = [p \in Procs |-> Res(0, ErrNil)]
    /\ failedAt = [p \in Procs |-> "none"]
    /\ cache = Put(NoEntries, Bystander, 2)
    /\ tasks = EmptyBag
    /\ cacheErrs = [w \in CacheCallers |-> 0]
    /\ results = << >>
    /\ callsMade = 0

NextFrame ==
    \/ NextSvc
    \/ \E p \in Procs : SvcGetTransactionHistory(p)

FrameSpec == InitFrame /\ [][NextFrame]_vars

\* The map m (wallets or cache) has the same entry, or none, for u as n.
SameEntry(m, n, u) ==
    /\ u \in DOMAIN m <=> u \in DOMAIN n
    /\ u \in DOMAIN m => m[u] = n[u]

AllUsers == Users \cup {Bystander}

\* C37: every step of a call (Deposit, Withdraw, Transfer, GetBalance,
\* GetTransactionHistory) leaves the wallet and the cache entry of every user
\* the call does not name as they were, appends only records whose sender and
\* receiver it names, and starts only goroutines on the cache entries of the
\* users it names; a goroutine changes only the cache entry it was started
\* for; GetBalance and GetTransactionHistory change neither wallets nor
\* transaction records, and GetTransactionHistory does not touch the cache.
C37_Frame ==
    /\ [][\A p \in Procs :
             pc'[p] # pc[p] =>
               LET c == op'[p]
                   n == Len(transactions)
               IN  /\ \A u \in AllUsers \ Touched(c) :
                         /\ SameEntry(wallets', wallets, u)
                         /\ SameEntry(cache', cache, u)
                   /\ Len(transactions') >= n
                   /\ \A i \in n + 1 .. Len(transactions') :
                         /\ transactions'[i].from_user_id \in Touched(c)
                         /\ transactions'[i].to_user_id \in Touched(c) \cup {NULL}
                   /\ \A t \in BagToSet(tasks') :
                         CopiesIn(t, tasks') > CopiesIn(t, tasks)
                            => t.user \in Touched(c)
                   /\ c.kind \in {"balance", "history"} => UNCHANGED storeVars
                   /\ c.kind = "history" => UNCHANGED <<cache, tasks>>]_vars
    /\ [][(pc' = pc /\ tasks' # tasks) =>
             /\ UNCHANGED storeVars
             /\ \E t \in BagToSet(tasks) :
                   /\ tasks' = tasks (-) SetToBag({t})
                   /\ \A u \in AllUsers \ {t.user} : SameEntry(cache', cache, u)]_vars

\* A Transfer from user1 to user2 has committed and both invalidations have
\* run, a GetBalance has returned, and the bystander's wallet and cache entry
\* are what they were.
C37_Witness ==
    \E p, q \in Procs :
        /\ pc[p] = "done" /\ op[p].kind = "transfer"
        /\ result[p].err = ErrNil
        /\ wallets[op[p].user] = bal0[op[p].user] - op[p].amount
        /\ op[p].amount > 0
        /\ pc[q] = "done" /\ op[q].kind = "balance"
        /\ tasks = EmptyBag
        /\ Bystander \in DOMAIN cache /\ cache[Bystander] = 2
        /\ wallets[Bystander] = 2

----------------------------------------------------------------------------
(* Where the values in the cache come from *)

\* The goroutine t is started in this step.
Started(t) == CopiesIn(t, tasks') > CopiesIn(t, tasks)

----------------------------------------------------------------------------
(* The transaction log *)

\* The ids of the committed records.
CommittedIds == {transactions[i].id : i \in DOMAIN transactions}

\* No step modifies or removes a committed record.
AppendOnly ==
    /\ Len(transactions') >= Len(transactions)
    /\ SubSeq(transactions', 1, Len(transactions)) = transactions

\* A GetTransactionHistory that returns in this step reads the store: its
\* page consists of committed rows of the user, as many as the limit allows,
\* and the cache plays no part.
HistoryReadsStore ==
    \A p \in Procs :
        (pc[p] = "idle" /\ pc'[p] = "done" /\ op'[p].kind = "history") =>
            /\ UNCHANGED <<storeVars, cacheVars>>
            /\ result'[p].err = ErrNil =>
                  LET rows == HistoryRows(op'[p].user)
                      page == result'[p].val
                  IN  /\ \A i \in DOMAIN page : page[i] \in rows
                      /\ \A i, j \in DOMAIN page : page[i] = page[j] => i = j
                      /\ \/ Len(page) = Cardinality(rows)
                         \/ Len(page) < Cardinality(rows) /\ Len(page) \in {1, DefaultLimit, MaxLimit}

\* C39: no step modifies or removes a committed record, every record that
\* becomes committed has an id strictly greater than all ids committed before
\* it, and GetTransactionHistory is answered from the store.
C39_IdsAboveCommitted ==
    [][/\ AppendOnly
       /\ \A i \in Len(transactions) + 1 .. Len(transactions') :
             \A x \in CommittedIds : transactions'[i].id > x
       /\ HistoryReadsStore]_vars

\* C39, amended: no step modifies or removes a committed record; the id of a
\* record is taken from the sequence by its INSERT, it is greater than every
\* id committed when the INSERT runs and different from the id of every other
\* record, committed or not (two transactions may commit in the other order
\* than they inserted); and GetTransactionHistory is answered from the store.
C39_AppendOnlyUniqueIds ==
    /\ [][/\ AppendOnly
          /\ \A p \in Procs :
                Len(txRec'[p]) > Len(txRec[p]) =>
                   LET r == txRec'[p][Len(txRec'[p])]
                   IN  /\ \A x \in CommittedIds : r.id > x
                       /\ \A q \in Procs : \A i \in DOMAIN txRec[q] :
                             txRec[q][i].id # r.id
          /\ HistoryReadsStore]_vars
    /\ [](\A i, j \in DOMAIN transactions :
             transactions[i].id = transactions[j].id => i = j)
    /\ [](\A x \in CommittedIds : x < nextID)

\* Two Deposits inserted in one order and committed in the other: the log
\* holds the larger id before the smaller one.
C39_Witness ==
    /\ \E i, j \in DOMAIN transactions :
          i < j /\ transactions[i].id > transactions[j].id
    /\ \A p \in Procs : pc[p] = "done" /\ result[p].err = ErrNil
    /\ Len(transactions) = Len(SeedLog(bal0, 1, 1)) + 3

====
